---- MODULE Spec2Model ----
(***************************************************************************)
(* The crawl / dedup / match / notify pipeline of gbot:                    *)
(*   ImprovedCrawler.Run        (internal/storage/food_repository.go)      *)
(*   NotificationService        (unnamed/part_004)                         *)
(*   AlertMatcher               (unnamed/part_003)                         *)
(* One crawler process runs its cycles one after the other; two crawler    *)
(* processes may run against the same MongoDB store (SpecOverlap).         *)
(***************************************************************************)
EXTENDS Integers, Sequences, FiniteSets, TLC

\* ------------------------------------------------------------- bounds
\* Cycles one crawler process runs.
MaxCycles == 2
\* Capacity of productChan in the model (the code allocates 1000 slots; the
\* model keeps it small so that a producer finds the queue full).
QueueCap == 2
\* Size of the dispatch semaphore (sem := make(chan struct{}, 5)).
SemCap == 5
\* maxRetries of FetchURL (base_crawler.go:15).
MaxRetries == 3
\* Alert commands followed in one run of the bot.
MaxCommands == 3
\* Matching alerts of one listing handed to createProductEmbed.
MaxAlerts == 3

\* ------------------------------------------------------------- data
Crawlers == {"A", "B"}
Sources == {"s1", "s2"}
Channels == {"ch1", "ch2"}
Urls == {"u1", "u2", "u3", "u4", "u5", "u6"}

\* strings are sequences of one-character strings
UpperChars == <<"M", "O", "N", "T", "V", "I">>
LowerChars == <<"m", "o", "n", "t", "v", "i">>

ToLowerChar(ch) ==
  IF \E i \in 1..Len(UpperChars) : UpperChars[i] = ch
  THEN LowerChars[CHOOSE i \in 1..Len(UpperChars) : UpperChars[i] = ch]
  ELSE ch

ToLower(s) == [i \in 1..Len(s) |-> ToLowerChar(s[i])]

Contains(s, sub) ==
  \E i \in 0..(Len(s) - Len(sub)) : SubSeq(s, i + 1, i + Len(sub)) = sub

\* strings.TrimSpace
RECURSIVE TrimLeft(_)
TrimLeft(s) == IF Len(s) > 0 /\ Head(s) = " " THEN TrimLeft(Tail(s)) ELSE s

RECURSIVE TrimRight(_)
TrimRight(s) ==
  IF Len(s) > 0 /\ s[Len(s)] = " " THEN TrimRight(SubSeq(s, 1, Len(s) - 1)) ELSE s

TrimSpace(s) == TrimRight(TrimLeft(s))

\* The keyword "alert add" stores for the text after the command: trimmed, its
\* case kept (internal/bot/commands/registry.go:124-134).
StoredKeyword(text) == TrimSpace(text)

\* Product.ID "" (not set)
NoId == <<>>

\* Listings the source adapters can return (Source "" means "not set").
L1 == [url |-> "u1", title |-> <<"M", "o", "n">>, product |-> <<>>,
       category |-> <<>>, source |-> "", id |-> NoId]
L2 == [url |-> "u2", title |-> <<"T", "v">>, product |-> <<"T", "v">>,
       category |-> <<>>, source |-> "", id |-> NoId]

\* A listing that only the subscription "on" (channel ch2) matches.
L3 == [url |-> "u3", title |-> <<"o", "n">>, product |-> <<>>,
       category |-> <<>>, source |-> "", id |-> NoId]
\* L2 under other urls.
L4 == [L2 EXCEPT !.url = "u4"]
L5 == [L2 EXCEPT !.url = "u5"]
L6 == [L2 EXCEPT !.url = "u6"]

\* Listings with and without a product name and a category, under one url.
MatchListings ==
  {[url |-> "u1", title |-> t, product |-> pr, category |-> cat, source |-> "", id |-> NoId] :
     t \in {<<"M", "o", "n", "i">>, <<"T", "v">>},
     pr \in {<<>>, <<"T", "v">>, <<"M", "O", "N">>, <<"o", "n">>},
     cat \in {<<>>, <<"T", "V">>}}

\* A crawl result with more listings than the dispatch semaphore has slots.
DispatchBatch == <<L1, L3, L2, L4, L5, L6>>

\* What one Crawl call can return on success.
CrawlResults == {<<L1>>, <<L1, L2>>}

\* The keyword_alerts collection: three active subscriptions and an inactive
\* one, as "alert add Mon ", "alert add  MO", "alert add on" and "alert add tv"
\* stored them.  a1 and a2 share channel ch1; a3 delivers to ch2.
Alerts ==
  [a1 |-> [keyword |-> StoredKeyword(<<"M", "o", "n", " ">>), userID |-> "w1",
           channelID |-> "ch1", isActive |-> TRUE],
   a2 |-> [keyword |-> StoredKeyword(<<" ", "M", "O">>), userID |-> "w2",
           channelID |-> "ch1", isActive |-> TRUE],
   a3 |-> [keyword |-> StoredKeyword(<<"o", "n">>), userID |-> "w3",
           channelID |-> "ch2", isActive |-> TRUE],
   a4 |-> [keyword |-> StoredKeyword(<<"t", "v">>), userID |-> "w1",
           channelID |-> "ch2", isActive |-> FALSE]]

AlertIds == DOMAIN Alerts
\* cursor order of collection.Find
AlertOrder == <<"a1", "a2", "a3", "a4">>

NoListing == [url |-> "none"]

\* no FetchURL call is followed
NoFetch == [st |-> "none"]

\* The rows of keyword_alerts the pipeline reads.
AlertRows ==
  {[id |-> a, userID |-> Alerts[a].userID, keyword |-> Alerts[a].keyword,
    isActive |-> Alerts[a].isActive] : a \in AlertIds}

\* no alert command is followed
NoCmds == [n |-> 0, h |-> {}]

\* the accesses to c.healthStatus are not followed one by one
NoAccess == [on |-> FALSE]

\* no createProductEmbed call is followed
NoEmbed == [st |-> "none"]

\* nobody holds a value GetStats returned
NoSnap == [taken |-> FALSE]

VARIABLES
  cfg,                \* the deployment (fixed by Init): the crawler processes, their
                      \* sources, what a source can return, the cycles of a process,
                      \* whether the store can fail a call on its own (faults), and
                      \* whether the run follows the advisory statistics (the
                      \* per-source statistics, the health map and the alerts'
                      \* notify_count, which nothing in the pipeline reads back)
  uniqueIdx,          \* collections whose unique url index was created
  products,           \* collection "products": set of rows
  notified,           \* collection "notified_products": set of rows
  alertMeta,          \* keyword_alerts.notify_count per alert
  pc,                 \* per crawler: "idle" | "crawl" | "notify"
  cycles,             \* per crawler: c.stats.RunCount
  cancelled,          \* per crawler: ctx.Done() is closed
  src,                \* per crawler, per source: the source goroutine
  queue,              \* per crawler: productChan
  closed,             \* per crawler: productChan and errorChan are closed
  errorChan,          \* per crawler: errorChan
  cur,                \* per crawler: the listing between its count and its insert
  newProducts,        \* per crawler: newProducts
  idx,                \* per crawler: position of NotifyNewProducts' loop
  workers,            \* per crawler: the dispatch goroutines, by batch position
  notificationErrors, \* per crawler: NotifyNewProducts' collected errors
  tick,               \* per crawler: a tick waits in rateLimiter.C
  result,             \* per crawler: what the last Run returned
  stats,              \* per crawler: c.stats
  health,             \* per crawler: c.healthStatus
  sendLog,            \* the urls a delivery call succeeded for (ok) and failed for (fail)
  hist,               \* per crawler: bookkeeping of the current cycle (not program state)
  sched,              \* per crawler: where StartScheduledRuns is
  schedTick,          \* per crawler: a tick waits in the scheduler's ticker.C
  fetch,              \* one FetchURL call (BaseCrawler)
  keywordAlerts,      \* collection "keyword_alerts" as the alert commands write it
  cmds,               \* the alert command handlers in flight
  snap,               \* what a caller of GetStats holds
  embed,              \* one createProductEmbed call: its alerts and its mentions
  healthAccess        \* the accesses to c.healthStatus now in progress

vars == <<cfg, uniqueIdx, products, notified, alertMeta, pc, cycles, cancelled,
          src, queue, closed, errorChan, cur, newProducts, idx, workers,
          notificationErrors, tick, result, stats, health, sendLog, hist,
          sched, schedTick, fetch, keywordAlerts, cmds, snap, embed, healthAccess>>

storeVars == <<products, notified, alertMeta>>
notifyVars == <<idx, workers, notificationErrors>>
schedVars == <<sched, schedTick>>
botVars == <<keywordAlerts, cmds>>

\* ------------------------------------------------------------- store
StoredUrls == {r.url : r \in products}
NotifiedUrls == {r.url : r \in notified}

\* (StoreCallNoCtx: the call is made with a context that is never cancelled.)
\* Outcomes of a MongoDB call made with crawler c's ctx: TRUE is success.  The
\* driver refuses a call whose context is already cancelled; otherwise the call
\* can still fail (connection loss).
StoreCallNoCtx(c) == {TRUE, FALSE}

StoreCall(c) ==
  IF cancelled[c] THEN {FALSE} ELSE IF cfg.faults THEN {TRUE, FALSE} ELSE {TRUE}

\* collection.CountDocuments(ctx, {"url": url}) on products
CountProducts(url) == Cardinality({r \in products : r.url = url})

\* primitive.NewObjectID() in crawler c's process: an id no row has
NewObjectID(c) == <<c, Cardinality(products) + 1>>

\* (InsertNeverRejected: the collection has no unique index.)
InsertNeverRejected(coll, rows, url) == FALSE

\* The unique index rejects a second row with the same url.
InsertRejected(coll, rows, url) ==
  coll \in uniqueIdx /\ \E r \in rows : r.url = url

ProductRow(p) ==
  [id |-> p.id, url |-> p.url, title |-> p.title, source |-> p.source,
   notified |-> FALSE, keywords |-> <<>>]

\* (ReplaceByKeywords: the update document has no $set, so the row is replaced
\* by a document that holds the keywords only.)
ReplaceByKeywords(rows, id, kws) ==
  {IF r.id = id
   THEN [id |-> id, url |-> "", title |-> <<>>, source |-> "", notified |-> FALSE,
         keywords |-> kws]
   ELSE r : r \in rows}

\* productCollection.UpdateByID(ctx, product.ID, {"$set": {"keywords": ...}})
\* (part_003:86-89): the row with this id gets the keywords, its other fields
\* stay.
SetKeywords(rows, id, kws) ==
  {IF r.id = id THEN [r EXCEPT !.keywords = kws] ELSE r : r \in rows}

\* ------------------------------------------------------------- statistics
\* SuccessRate is kept in thousandths.
RateScale == 1000

\* (RateAfterFailureReset: a failure sets the rate to 0 whatever it was.)
RateAfterFailureReset(rate) == 0

\* SuccessRate*0.9 + 0*0.1, and 0 stays 0 (food_repository.go:534-540).
RateAfterFailure(rate) == IF rate = 0 THEN 0 ELSE (rate * 9) \div 10

\* SuccessRate*0.9 + 1*0.1, and 1 for a rate of 0 (food_repository.go:561-567).
RateAfterSuccess(rate) == IF rate = 0 THEN RateScale ELSE (rate * 9) \div 10 + RateScale \div 10

InitSourceStats == [productsFound |-> 0, lastError |-> "", successRate |-> 0]

InitStats ==
  [totalProducts |-> 0, newProducts |-> 0, notifiedProducts |-> 0, lastError |-> "",
   sourceStats |-> [s \in Sources |-> InitSourceStats]]

\* ------------------------------------------------------------- initial state
InitHist ==
  [preStore |-> {},         \* urls stored when the cycle started
   returned |-> {},         \* urls the sources that succeeded returned
   failedSrc |-> {},        \* sources whose Crawl failed
   storeFault |-> FALSE,    \* a store call of the drain failed
   called |-> FALSE,        \* a delivery call has completed
   written |-> {},          \* urls whose NotifiedRecord the cycle inserted
   earlyCancel |-> FALSE,   \* ctx was cancelled before any delivery call completed
   atCancel |-> {},         \* urls stored when ctx was cancelled
   ticks |-> 0,             \* ticks the limiter's channel has held during the cycle
   calls |-> 0]             \* delivery calls started during the cycle

IdleSrc == [st |-> "done", pending |-> <<>>]

InitCommon ==
  /\ products = {}
  /\ notified = {}
  /\ alertMeta = [a \in AlertIds |-> 0]
  /\ pc = [c \in Crawlers |-> "idle"]
  /\ cycles = [c \in Crawlers |-> 0]
  /\ cancelled = [c \in Crawlers |-> FALSE]
  /\ src = [c \in Crawlers |-> [s \in Sources |-> IdleSrc]]
  /\ queue = [c \in Crawlers |-> <<>>]
  /\ closed = [c \in Crawlers |-> TRUE]
  /\ errorChan = [c \in Crawlers |-> <<>>]
  /\ cur = [c \in Crawlers |-> NoListing]
  /\ newProducts = [c \in Crawlers |-> <<>>]
  /\ idx = [c \in Crawlers |-> 1]
  /\ workers = [c \in Crawlers |-> <<>>]
  /\ notificationErrors = [c \in Crawlers |-> <<>>]
  /\ tick = [c \in Crawlers |-> FALSE]
  /\ result = [c \in Crawlers |-> "none"]
  /\ stats = [c \in Crawlers |-> InitStats]
  /\ health = [c \in Crawlers |-> {}]
  /\ sendLog = [ok |-> {}, fail |-> {}]
  /\ hist = [c \in Crawlers |-> InitHist]
  /\ sched = [c \in Crawlers |-> "start"]
  /\ schedTick = [c \in Crawlers |-> FALSE]

\* No alert command and no caller of GetStats are followed.
InitRest ==
  /\ keywordAlerts = AlertRows
  /\ cmds = NoCmds
  /\ snap = NoSnap
  /\ embed = NoEmbed
  /\ healthAccess = NoAccess

\* One crawler process; setupDatabaseIndices created both unique indices or
\* failed to (its failures are logged, not fatal).
Init ==
  /\ cfg = [crawlers |-> {"A"}, sources |-> Sources, results |-> CrawlResults,
            cycles |-> MaxCycles, advisory |-> FALSE, faults |-> TRUE]
  /\ uniqueIdx \in {{}, {"products", "notified"}}
  /\ InitCommon
  /\ fetch = NoFetch
  /\ InitRest

\* Two crawler processes against one store, one source and one cycle each.
InitOverlap ==
  /\ cfg = [crawlers |-> {"A", "B"}, sources |-> {"s1"}, results |-> {<<L1>>},
            cycles |-> 1, advisory |-> FALSE, faults |-> TRUE]
  /\ uniqueIdx \in {{}, {"products", "notified"}}
  /\ InitCommon
  /\ fetch = NoFetch
  /\ InitRest

\* Two crawler processes against one store with both unique indices; each has one
\* source that returns u3 and u2, and runs one cycle; the store fails no call on
\* its own.
InitRace ==
  /\ cfg = [crawlers |-> {"A", "B"}, sources |-> {"s1"}, results |-> {<<L3, L2>>},
            cycles |-> 1, advisory |-> FALSE, faults |-> FALSE]
  /\ uniqueIdx = {"products", "notified"}
  /\ InitCommon
  /\ fetch = NoFetch
  /\ InitRest

\* One crawler process, one source that returns six new listings, one cycle,
\* both unique indices, and a store that fails no call on its own.
InitDispatch ==
  /\ cfg = [crawlers |-> {"A"}, sources |-> {"s1"}, results |-> {DispatchBatch},
            cycles |-> 1, advisory |-> FALSE, faults |-> FALSE]
  /\ uniqueIdx = {"products", "notified"}
  /\ InitCommon
  /\ fetch = NoFetch
  /\ InitRest

\* One crawler process with two sources that return a listing one subscription
\* matches; the run follows the statistics.
InitStatistics ==
  /\ cfg = [crawlers |-> {"A"}, sources |-> Sources, results |-> {<<L3>>},
            cycles |-> MaxCycles, advisory |-> TRUE, faults |-> TRUE]
  /\ uniqueIdx = {"products", "notified"}
  /\ InitCommon
  /\ fetch = NoFetch
  /\ InitRest

\* One crawler process, one source that returns the listing three subscriptions
\* match, one cycle; the run follows the alerts' metadata.
InitMatcher ==
  /\ cfg = [crawlers |-> {"A"}, sources |-> {"s1"}, results |-> {<<L1>>},
            cycles |-> 1, advisory |-> TRUE, faults |-> TRUE]
  /\ uniqueIdx = {"products", "notified"}
  /\ InitCommon
  /\ fetch = NoFetch
  /\ InitRest

\* One crawler process, one source that returns one listing of MatchListings,
\* one cycle.
InitMatch ==
  /\ cfg = [crawlers |-> {"A"}, sources |-> {"s1"},
            results |-> {<<l>> : l \in MatchListings},
            cycles |-> 1, advisory |-> FALSE, faults |-> TRUE]
  /\ uniqueIdx = {"products", "notified"}
  /\ InitCommon
  /\ fetch = NoFetch
  /\ InitRest

\* ------------------------------------------------------------- StartScheduledRuns
\* (AfterRunStopOnError: a scheduler that gives up when a cycle returns an error.)
AfterRunStopOnError(res) == IF res = "nil" THEN "select" ELSE "stopped"

\* Where StartScheduledRuns goes when c.Run has returned: the error is logged
\* and stored, and the loop goes (back) to its select
\* (food_repository.go:724-731, 737-744).
AfterRun(res) == "select"

\* (ScheduleFiresOnTick: every tick starts a Run of its own, go c.Run(ctx),
\* whether the last one has returned or not.)
ScheduleFiresOnTick(c) ==
  <<sched[c], schedTick[c]>> \in {<<"start", FALSE>>, <<"select", TRUE>>, <<"run", TRUE>>}

\* StartScheduledRuns calls c.Run: first thing after it has made its ticker, and
\* then on case <-ticker.C (food_repository.go:723-724, 735-737).
ScheduleFires(c) == <<sched[c], schedTick[c]>> \in {<<"start", FALSE>>, <<"select", TRUE>>}

\* c.stats.LastError = err.Error() when c.Run returned an error
\* (food_repository.go:724-731, 737-744).
StoreLastError(st, res) == IF res = "nil" THEN st ELSE [st EXCEPT !.lastError = "err"]

\* The scheduler's ticker fires (food_repository.go:718, 736).  As for the
\* limiter, only a tick the select can see is followed.
SchedTick(c) ==
  /\ c \in cfg.crawlers
  /\ sched[c] = "select"
  /\ ~schedTick[c]
  /\ schedTick' = [schedTick EXCEPT ![c] = TRUE]
  /\ UNCHANGED <<cfg, fetch, botVars, snap, embed, healthAccess, sched, uniqueIdx, storeVars, pc, cycles, cancelled, src, queue,
                 closed, errorChan, cur, newProducts, notifyVars, tick, result, stats,
                 health, sendLog, hist>>

\* case <-ctx.Done(): return (food_repository.go:745-747).
SchedStop(c) ==
  /\ c \in cfg.crawlers
  /\ sched[c] = "select"
  /\ cancelled[c]
  /\ sched' = [sched EXCEPT ![c] = "stopped"]
  /\ UNCHANGED <<cfg, fetch, botVars, snap, embed, healthAccess, schedTick, uniqueIdx, storeVars, pc, cycles, cancelled, src,
                 queue, closed, errorChan, cur, newProducts, notifyVars, tick, result,
                 stats, health, sendLog, hist>>

\* ------------------------------------------------------------- Run: start
\* food_repository.go:490-509: reset the per-run counters, make the channels,
\* start one goroutine per source and the closer.
RunStart(c) ==
  /\ c \in cfg.crawlers
  /\ cycles[c] < cfg.cycles
  /\ ScheduleFires(c)
  /\ \A s \in Sources : src[c][s].st = "done"   \* the goroutines of the last Run are gone
  /\ sched' = [sched EXCEPT ![c] = "run"]
  /\ schedTick' = [schedTick EXCEPT ![c] = FALSE]
  /\ pc' = [pc EXCEPT ![c] = "crawl"]
  /\ cycles' = [cycles EXCEPT ![c] = @ + 1]
  /\ stats' = [stats EXCEPT ![c].newProducts = 0, ![c].notifiedProducts = 0]
  /\ src' = [src EXCEPT ![c] = [s \in Sources |->
        [st |-> IF s \in cfg.sources THEN "crawl" ELSE "done", pending |-> <<>>]]]
  /\ queue' = [queue EXCEPT ![c] = <<>>]
  /\ closed' = [closed EXCEPT ![c] = FALSE]
  /\ errorChan' = [errorChan EXCEPT ![c] = <<>>]
  /\ cur' = [cur EXCEPT ![c] = NoListing]
  /\ newProducts' = [newProducts EXCEPT ![c] = <<>>]
  /\ idx' = [idx EXCEPT ![c] = 1]
  /\ workers' = [workers EXCEPT ![c] = <<>>]
  /\ notificationErrors' = [notificationErrors EXCEPT ![c] = <<>>]
  /\ result' = [result EXCEPT ![c] = "none"]
  /\ hist' = [hist EXCEPT ![c] =
        [InitHist EXCEPT !.preStore = StoredUrls, !.earlyCancel = cancelled[c],
                         !.ticks = IF tick[c] THEN 1 ELSE 0]]
  /\ UNCHANGED <<cfg, fetch, botVars, snap, embed, healthAccess, uniqueIdx, storeVars, cancelled, tick, health, sendLog>>

\* ------------------------------------------------------------- source goroutines
\* Set source and crawled time if not already set (food_repository.go:578-584).
Tag(p, s) == IF p.source = "" THEN [p EXCEPT !.source = s] ELSE p

TagAll(ps, s) == [i \in 1..Len(ps) |-> Tag(ps[i], s)]

\* (ErrorChanUnbuffered: errorChan is made without a buffer, so a send waits
\* for the loop that reads it, which starts only when every source goroutine
\* is done and the drain loop is over.)
ErrorChanUnbuffered(c) == FALSE

\* errorChan := make(chan error, len(c.sources)) (food_repository.go:504): a
\* send goes through while the buffer has a free slot.
ErrorChanFree(c) == Len(errorChan[c]) < Cardinality(cfg.sources)

\* source.Crawl fails: the statistics record the failure, the error goes to
\* errorChan and the goroutine returns (food_repository.go:521-547).
SourceCrawlFail(c, s) ==
  /\ src[c][s].st = "crawl"
  /\ ErrorChanFree(c)
  /\ src' = [src EXCEPT ![c][s].st = "done"]
  /\ stats' = IF cfg.advisory
               THEN [stats EXCEPT
                       ![c].sourceStats[s].lastError = "err",
                       ![c].sourceStats[s].successRate = RateAfterFailure(@)]
               ELSE stats
  /\ errorChan' = [errorChan EXCEPT ![c] = Append(@, "crawl")]
  /\ hist' = [hist EXCEPT ![c].failedSrc = @ \cup {s}]
  /\ UNCHANGED <<cfg, fetch, botVars, snap, embed, healthAccess, schedVars, uniqueIdx, storeVars, pc, cycles, cancelled, queue, closed,
                 cur, newProducts, notifyVars, tick, result, health, sendLog>>

\* source.Crawl succeeds: the statistics and the health map record it
\* (food_repository.go:549-574).
SourceCrawlOk(c, s) ==
  /\ src[c][s].st = "crawl"
  /\ \E ps \in cfg.results :
       /\ src' = [src EXCEPT ![c][s] =
             [st |-> IF healthAccess.on THEN "health"
                     ELSE IF Len(ps) = 0 THEN "done" ELSE "push",
              pending |-> ps]]
       /\ stats' = IF cfg.advisory
                    THEN [stats EXCEPT
                            ![c].sourceStats[s].productsFound = Len(ps),
                            ![c].sourceStats[s].lastError = "",
                            ![c].sourceStats[s].successRate = RateAfterSuccess(@),
                            ![c].totalProducts = @ + Len(ps)]
                    ELSE stats
       /\ health' = IF cfg.advisory /\ ~healthAccess.on
                     THEN [health EXCEPT ![c] = @ \cup {s}]
                     ELSE health
       /\ hist' = [hist EXCEPT ![c].returned = @ \cup {ps[i].url : i \in 1..Len(ps)}]
  /\ UNCHANGED <<cfg, fetch, botVars, snap, embed, healthAccess, schedVars, uniqueIdx, storeVars, pc, cycles, cancelled, queue, closed,
                 errorChan, cur, newProducts, notifyVars, tick, result, sendLog>>

\* case productChan <- product (food_repository.go:586-588): needs a free slot.
SourcePush(c, s) ==
  /\ src[c][s].st = "push"
  /\ Len(queue[c]) < QueueCap
  /\ queue' = [queue EXCEPT ![c] = Append(@, Tag(Head(src[c][s].pending), s))]
  /\ src' = [src EXCEPT ![c][s] =
        [st |-> IF Len(src[c][s].pending) = 1 THEN "done" ELSE "push",
         pending |-> Tail(src[c][s].pending)]]
  /\ UNCHANGED <<cfg, fetch, botVars, snap, embed, healthAccess, schedVars, uniqueIdx, storeVars, pc, cycles, cancelled, closed, errorChan,
                 cur, newProducts, notifyVars, tick, result, stats, health, hist, sendLog>>

\* case <-ctx.Done() (food_repository.go:589-593): stop sending.
SourcePushCancelled(c, s) ==
  /\ src[c][s].st = "push"
  /\ cancelled[c]
  /\ ErrorChanFree(c)
  /\ errorChan' = [errorChan EXCEPT ![c] = Append(@, "ctx")]
  /\ src' = [src EXCEPT ![c][s] = [st |-> "done", pending |-> <<>>]]
  /\ UNCHANGED <<cfg, fetch, botVars, snap, embed, healthAccess, schedVars, uniqueIdx, storeVars, pc, cycles, cancelled, queue, closed,
                 cur, newProducts, notifyVars, tick, result, stats, health, hist, sendLog>>

\* (AnySourceDone: the wait ends with the first goroutine that is done.)
AnySourceDone(c) == \E s \in cfg.sources : src[c][s].st = "done"

\* wg.Wait() returns: every source goroutine has called wg.Done()
\* (food_repository.go:508-514, 600).
AllSourcesDone(c) == \A s \in Sources : src[c][s].st = "done"

\* wg.Wait(); close(productChan); close(errorChan) (food_repository.go:599-603).
Closer(c) ==
  /\ ~closed[c]
  /\ AllSourcesDone(c)
  /\ closed' = [closed EXCEPT ![c] = TRUE]
  /\ UNCHANGED <<cfg, fetch, botVars, snap, embed, healthAccess, schedVars, uniqueIdx, storeVars, pc, cycles, cancelled, src, queue,
                 errorChan, cur, newProducts, notifyVars, tick, result, stats, health, hist, sendLog>>

\* ------------------------------------------------------------- cancellation
\* cancel() of the context handed to Run (cmd/pricesota/main.go:36-42).
Cancel(c) ==
  /\ c \in cfg.crawlers
  /\ ~cancelled[c]
  /\ cancelled' = [cancelled EXCEPT ![c] = TRUE]
  /\ hist' = [hist EXCEPT ![c].earlyCancel = pc[c] # "idle" /\ ~hist[c].called,
                           ![c].atCancel = IF pc[c] # "idle" THEN StoredUrls ELSE @]
  /\ UNCHANGED <<cfg, fetch, botVars, snap, embed, healthAccess, schedVars, uniqueIdx, storeVars, pc, cycles, src, queue, closed, errorChan,
                 cur, newProducts, notifyVars, tick, result, stats, health, sendLog>>

\* ------------------------------------------------------------- Run: drain
\* What Run returns at its end (food_repository.go:700-713): the collected
\* errors are formatted into one new error with fmt.Errorf("%s", ...), which
\* wraps nothing; "cancelled" is an error that is ctx.Err().
ReturnKind(errs) == IF Len(errs) > 0 THEN "generic" ELSE "nil"

\* for product := range productChan with ctx.Done() closed: return ctx.Err()
\* (food_repository.go:612-615).
DrainCancelled(c) ==
  /\ pc[c] = "crawl"
  /\ cur[c] = NoListing
  /\ queue[c] # <<>>
  /\ cancelled[c]
  /\ queue' = [queue EXCEPT ![c] = Tail(@)]
  /\ pc' = [pc EXCEPT ![c] = "idle"]
  /\ result' = [result EXCEPT ![c] = "cancelled"]
  /\ sched' = [sched EXCEPT ![c] = AfterRun("cancelled")]
  /\ stats' = [stats EXCEPT ![c] = StoreLastError(@, "cancelled")]
  /\ UNCHANGED schedTick
  /\ UNCHANGED <<cfg, fetch, botVars, snap, embed, healthAccess, uniqueIdx, storeVars, cycles, cancelled, src, closed, errorChan,
                 cur, newProducts, notifyVars, tick, health, sendLog, hist>>

\* (IsNewProductNoCount: the result of the count is not looked at.)
IsNewProductNoCount(ok, url) == ok

\* (IsNewProductFailOpen: a failed count is taken for "no row".)
IsNewProductFailOpen(ok, url) == ~ok \/ CountProducts(url) = 0

\* The listing is new when the count succeeds and finds no row
\* (food_repository.go:623-634).
IsNewProduct(ok, url) == ok /\ CountProducts(url) = 0

\* (AppendNewAlways: a failed insert is logged and the listing is appended all
\* the same.)
AppendNewAlways(done, batch, p) == Append(batch, p)

\* newProducts = append(newProducts, product), which a failed InsertOne skips
\* with continue (food_repository.go:641-654, part_006:146-159).
AppendNew(done, batch, p) == IF done THEN Append(batch, p) ELSE batch

\* Receive a listing and count the rows with its url (food_repository.go:612-639).
DrainCheck(c) ==
  /\ pc[c] = "crawl"
  /\ cur[c] = NoListing
  /\ queue[c] # <<>>
  /\ ~cancelled[c]
  /\ queue' = [queue EXCEPT ![c] = Tail(@)]
  /\ \E ok \in StoreCall(c) :
       LET p == Head(queue[c]) IN
       /\ cur' = [cur EXCEPT ![c] =
             IF IsNewProduct(ok, p.url)
             THEN (IF p.id = NoId THEN [p EXCEPT !.id = NewObjectID(c)] ELSE p)
             ELSE NoListing]
       /\ hist' = [hist EXCEPT ![c].storeFault = @ \/ ~ok]
  /\ UNCHANGED <<cfg, fetch, botVars, snap, embed, healthAccess, schedVars, uniqueIdx, storeVars, pc, cycles, cancelled, src, closed, errorChan,
                 newProducts, notifyVars, tick, result, stats, health, sendLog>>

\* collection.InsertOne(ctx, product) and, when it succeeds, the append to
\* newProducts and the counter (food_repository.go:641-659).
DrainInsert(c) ==
  /\ pc[c] = "crawl"
  /\ cur[c] # NoListing
  /\ cur' = [cur EXCEPT ![c] = NoListing]
  /\ \E ok \in StoreCall(c) :
       LET p == cur[c]
           done == ok /\ ~InsertRejected("products", products, p.url)
       IN
       /\ products' = IF done THEN products \cup {ProductRow(p)} ELSE products
       /\ newProducts' = [newProducts EXCEPT ![c] = AppendNew(done, @, p)]
       /\ stats' = [stats EXCEPT ![c].newProducts = IF done THEN @ + 1 ELSE @]
       /\ hist' = [hist EXCEPT ![c].storeFault = @ \/ ~done]
  /\ UNCHANGED <<cfg, fetch, botVars, snap, embed, healthAccess, schedVars, uniqueIdx, notified, alertMeta, pc, cycles, cancelled, src, queue,
                 closed, errorChan, notifyVars, tick, result, health, sendLog>>

\* (RangeEndsOnEmpty: the loop ends as soon as it finds the channel empty.)
RangeEndsOnEmpty(c) == queue[c] = <<>>

\* for product := range productChan ends when the channel is closed and empty
\* (food_repository.go:611).
RangeEnds(c) == queue[c] = <<>> /\ closed[c]

\* productChan is closed and empty: the range loop ends, errorChan is read, and
\* with no new product Run returns (food_repository.go:663-670, 690-713).
DrainEnd(c) ==
  /\ pc[c] = "crawl"
  /\ cur[c] = NoListing
  /\ RangeEnds(c)
  /\ IF Len(newProducts[c]) > 0
     THEN /\ pc' = [pc EXCEPT ![c] = "notify"]
          /\ UNCHANGED <<result, sched, stats>>
     ELSE /\ pc' = [pc EXCEPT ![c] = "idle"]
          /\ result' = [result EXCEPT ![c] = ReturnKind(errorChan[c])]
          /\ sched' = [sched EXCEPT ![c] = AfterRun(ReturnKind(errorChan[c]))]
          /\ stats' = [stats EXCEPT ![c] = StoreLastError(@, ReturnKind(errorChan[c]))]
  /\ UNCHANGED schedTick
  /\ UNCHANGED <<cfg, fetch, botVars, snap, embed, healthAccess, uniqueIdx, storeVars, cycles, cancelled, src, queue, closed,
                 errorChan, cur, newProducts, notifyVars, tick, health, sendLog, hist>>

\* ------------------------------------------------------------- AlertMatcher
\* The text a keyword is searched in (part_003:52-62).
SearchText(p) ==
  ToLower(p.title)
    \o (IF p.product # <<>> /\ p.product # p.title THEN <<" ">> \o ToLower(p.product) ELSE <<>>)
    \o (IF p.category # <<>> THEN <<" ">> \o ToLower(p.category) ELSE <<>>)

\* An alert matches when its lower-cased keyword is in the text (part_003:65-70).
AlertMatches(a, p) == Contains(SearchText(p), ToLower(Alerts[a].keyword))

\* (IsActiveMatchAny: the Find has no is_active filter.)
IsActiveMatchAny(a, p) == AlertMatches(a, p)

\* Find({"is_active": true}) and the test of the keyword (part_003:33, 65-70).
IsActiveMatch(a, p) == Alerts[a].isActive /\ AlertMatches(a, p)

\* The matches of FindMatchingAlerts in cursor order (part_003:33-81).
FindMatching(p) == SelectSeq(AlertOrder, LAMBDA a : IsActiveMatch(a, p))

SeqToSet(s) == {s[i] : i \in 1..Len(s)}

\* ------------------------------------------------------------- NotifyNewProducts
\* (IsProductNotifiedFailClosed: a failed count answers true, as the skip on that
\* error in part_005:137-145 does.)
IsProductNotifiedFailClosed(ok, url) == ~ok \/ url \in NotifiedUrls

\* isProductNotified: a failed count is logged and answers false (part_004:311-321).
IsProductNotified(ok, url) == ok /\ url \in NotifiedUrls

Running(c) == {w \in 1..Len(workers[c]) : workers[c][w].st \in {"match", "send"}}

NewWorker(p, st) ==
  [st |-> st, p |-> p, alerts |-> <<>>, j |-> 1, sent |-> {}, failed |-> {},
   nerr |-> 0, calls |-> [ch \in Channels |-> 0], ret |-> "none", mark |-> "none", flag |-> "none",
   hadRecord |-> p.url \in NotifiedUrls]

\* (SemAlwaysFree: a goroutine is started without a semaphore slot.)
SemAlwaysFree(c) == TRUE

\* sem <- struct{}{} goes through when fewer than 5 goroutines hold a slot
\* (part_004:64, 79).
SemFree(c) == Cardinality(Running(c)) < SemCap

\* One turn of the loop over the batch (part_004:70-112): skip a listing that is
\* already notified, otherwise take a semaphore slot and start its goroutine.
NotifyLoop(c) ==
  /\ pc[c] = "notify"
  /\ idx[c] <= Len(newProducts[c])
  /\ \E ok \in StoreCall(c) :
       LET p == newProducts[c][idx[c]] IN
       IF IsProductNotified(ok, p.url)
       THEN workers' = [workers EXCEPT ![c] = Append(@, NewWorker(p, "skipped"))]
       ELSE /\ SemFree(c)
            /\ workers' = [workers EXCEPT ![c] = Append(@, NewWorker(p, "match"))]
  /\ idx' = [idx EXCEPT ![c] = @ + 1]
  /\ UNCHANGED <<cfg, fetch, botVars, snap, embed, healthAccess, schedVars, uniqueIdx, storeVars, pc, cycles, cancelled, src, queue, closed,
                 errorChan, cur, newProducts, notificationErrors, tick, result, stats,
                 health, sendLog, hist>>

\* The position of the next alert whose channel has not been sent to
\* (the loop and its guard, part_004:145-146).
RECURSIVE NextAlert(_, _, _)
NextAlert(alerts, j, sent) ==
  IF j > Len(alerts) \/ Alerts[alerts[j]].channelID \notin sent
  THEN j
  ELSE NextAlert(alerts, j + 1, sent)

\* (MatchesUntilFailure: the loop over the alerts ends with the first alert
\* whose metadata update fails.)
MatchesUntilFailure(m, upd) ==
  LET bad == {i \in 1..Len(m) : m[i] \notin upd} IN
  IF bad = {} THEN m ELSE SubSeq(m, 1, CHOOSE i \in bad : \A j \in bad : i <= j)

\* What FindMatchingAlerts returns when upd are the matches whose metadata
\* update succeeded: every match, a failed update being logged only
\* (part_003:71-79, 104).
MatchesReturned(m, upd) == m

\* FindMatchingAlerts in a dispatch goroutine (part_004:87-98, part_003:30-105).
\* Find fails: the error is collected.  Otherwise every match has its alert's
\* metadata updated and the product row gets the matched keywords; a failure
\* of either update is logged only.
WorkerMatch(c, w) ==
  /\ w \in 1..Len(workers[c])
  /\ workers[c][w].st = "match"
  /\ LET p == workers[c][w].p
         m == FindMatching(p)
     IN
     \E ok \in StoreCall(c) :
       IF ~ok
       THEN /\ workers' = [workers EXCEPT ![c][w].st = "done", ![c][w].ret = "match"]
            /\ notificationErrors' = [notificationErrors EXCEPT ![c] = Append(@, "match")]
            /\ UNCHANGED <<products, alertMeta>>
       ELSE /\ \E upd \in SUBSET SeqToSet(m) :
                 /\ (cancelled[c] \/ ~cfg.advisory => upd = {})
                 /\ alertMeta' = [a \in AlertIds |-> IF a \in upd THEN alertMeta[a] + 1
                                                     ELSE alertMeta[a]]
                 /\ workers' = [workers EXCEPT
                       ![c][w].st = IF Len(m) = 0 THEN "done" ELSE "send",
                       ![c][w].ret = IF Len(m) = 0 THEN "nil" ELSE "none",
                       ![c][w].alerts = MatchesReturned(m, upd)]
            /\ \E okKw \in StoreCall(c) :
                 products' =
                   IF Len(m) > 0 /\ p.id # NoId /\ okKw
                   THEN SetKeywords(products, p.id,
                                    [i \in 1..Len(m) |-> Alerts[m[i]].keyword])
                   ELSE products
            /\ UNCHANGED notificationErrors
  /\ UNCHANGED <<cfg, fetch, botVars, snap, embed, healthAccess, schedVars, uniqueIdx, notified, pc, cycles, cancelled, src, queue, closed,
                 errorChan, cur, newProducts, idx, tick, result, stats, health, sendLog, hist>>

\* (LimiterAlwaysReady: the call is made without waiting for a tick.)
LimiterAlwaysReady(c) == TRUE

\* case <-n.rateLimiter.C: a tick waits in the ticker's channel (part_004:148-150).
LimiterReady(c) == tick[c]

\* (NextIndexBreak: a failed call ends the loop over the alerts.)
NextIndexBreak(sentOk, j, n) == IF sentOk THEN j + 1 ELSE n + 1

\* The loop goes on with the next alert after a call, failed (continue) or not
\* (part_004:145, 157-171).
NextIndex(sentOk, j, n) == j + 1

\* A tick of the 2 s ticker is taken and ChannelMessageSendEmbed is called; on
\* an error the channel goes to channelErrors, on success to sentChannels
\* (part_004:146-171).
WorkerDeliver(c, w) ==
  /\ w \in 1..Len(workers[c])
  /\ workers[c][w].st = "send"
  /\ LET wk == workers[c][w]
         j == NextAlert(wk.alerts, wk.j, wk.sent)
     IN
     /\ j <= Len(wk.alerts)
     /\ LimiterReady(c)
     /\ tick' = [tick EXCEPT ![c] = FALSE]
     /\ \E sentOk \in BOOLEAN :
          LET ch == Alerts[wk.alerts[j]].channelID IN
          /\ workers' = [workers EXCEPT ![c][w] =
                [wk EXCEPT !.j = NextIndex(sentOk, j, Len(wk.alerts)),
                           !.sent = IF sentOk THEN @ \cup {ch} ELSE @,
                           !.failed = IF sentOk THEN @ ELSE @ \cup {ch},
                           !.nerr = IF sentOk THEN @ ELSE @ + 1,
                           !.calls[ch] = @ + 1]]
          /\ sendLog' = IF sentOk THEN [sendLog EXCEPT !.ok = @ \cup {wk.p.url}]
                                  ELSE [sendLog EXCEPT !.fail = @ \cup {wk.p.url}]
          /\ hist' = [hist EXCEPT ![c].called = TRUE, ![c].calls = @ + 1]
  /\ UNCHANGED <<cfg, fetch, botVars, snap, embed, healthAccess, schedVars, uniqueIdx, storeVars, pc, cycles, cancelled, src, queue, closed,
                 errorChan, cur, newProducts, idx, notificationErrors, result, stats, health>>

\* case <-ctx.Done(): return ctx.Err() while waiting for the ticker
\* (part_004:151-154); NotifyNewProducts collects the error (part_004:106-110).
WorkerCtxDone(c, w) ==
  /\ w \in 1..Len(workers[c])
  /\ workers[c][w].st = "send"
  /\ LET wk == workers[c][w] IN
     /\ NextAlert(wk.alerts, wk.j, wk.sent) <= Len(wk.alerts)
     /\ cancelled[c]
     /\ workers' = [workers EXCEPT ![c][w].st = "done", ![c][w].ret = "ctx"]
     /\ notificationErrors' = [notificationErrors EXCEPT ![c] = Append(@, "ctx")]
  /\ UNCHANGED <<cfg, fetch, botVars, snap, embed, healthAccess, schedVars, uniqueIdx, storeVars, pc, cycles, cancelled, src, queue, closed,
                 errorChan, cur, newProducts, idx, tick, result, stats, health, sendLog, hist>>

\* (ShouldMarkOnlyClean: no mark when a channel failed.  ShouldMarkAlways: the
\* mark without the guard, as internal/crawler/discord.go:176-177 does it.)
ShouldMarkOnlyClean(sent, failed) == Cardinality(sent) > 0 /\ Cardinality(failed) = 0

ShouldMarkAlways(sent, failed) == TRUE

\* (ShouldMarkOnAttempt: the mark as soon as a channel was called, sent or not.)
ShouldMarkOnAttempt(sent, failed) == Cardinality(sent) + Cardinality(failed) > 0

\* Only mark product as notified if at least one notification was sent
\* (part_004:174-175).
ShouldMark(sent, failed) == Cardinality(sent) > 0

\* What sendProductNotifications returns after its loop (part_004:185-201).
SendResult(nerr, nalerts) ==
  IF nerr > 0
  THEN (IF nerr = nalerts THEN "allfailed" ELSE "partial")
  ELSE "nil"

NotifiedRow(p) == [url |-> p.url, title |-> p.title, productID |-> p.id]

\* After the loop over the alerts: markProductNotified when a channel was sent
\* to (InsertOne into notified_products, then the notified flag of the product
\* row, whose failure is logged only), and the return value, which
\* NotifyNewProducts collects when it is an error (part_004:174-201, 323-360,
\* 105-110).
WorkerFinish(c, w) ==
  /\ w \in 1..Len(workers[c])
  /\ workers[c][w].st = "send"
  /\ LET wk == workers[c][w] IN
     /\ NextAlert(wk.alerts, wk.j, wk.sent) > Len(wk.alerts)
     /\ \E ok \in StoreCall(c), okFlag \in StoreCall(c) :
          LET marking == ShouldMark(wk.sent, wk.failed)
              inserted == marking /\ ok /\ ~InsertRejected("notified", notified, wk.p.url)
              flagged == inserted /\ wk.p.id # NoId /\ okFlag
              nerr == IF marking /\ ~inserted THEN wk.nerr + 1 ELSE wk.nerr
              ret == SendResult(nerr, Len(wk.alerts))
          IN
          /\ notified' = IF inserted THEN notified \cup {NotifiedRow(wk.p)} ELSE notified
          /\ products' = IF flagged
                         THEN {IF r.id = wk.p.id THEN [r EXCEPT !.notified = TRUE] ELSE r :
                               r \in products}
                         ELSE products
          /\ workers' = [workers EXCEPT ![c][w] =
                [wk EXCEPT !.st = "done", !.nerr = nerr, !.ret = ret,
                           !.mark = IF ~marking THEN "none" ELSE IF inserted THEN "ok" ELSE "err",
                           !.flag = IF ~inserted THEN "none" ELSE IF flagged THEN "ok" ELSE "err"]]
          /\ notificationErrors' = [notificationErrors EXCEPT ![c] =
                IF ret = "nil" THEN @ ELSE Append(@, ret)]
          /\ hist' = [hist EXCEPT ![c].written = IF inserted THEN @ \cup {wk.p.url} ELSE @]
  /\ UNCHANGED <<cfg, fetch, botVars, snap, embed, healthAccess, schedVars, uniqueIdx, alertMeta, pc, cycles, cancelled, src, queue, closed,
                 errorChan, cur, newProducts, idx, tick, result, stats, health, sendLog>>

\* The ticker of NewNotificationService puts a tick into its channel of one slot
\* (part_004:35-36).  Ticks nobody waits for are not followed: a tick that is
\* already waiting when a goroutine arrives is the same as one that comes then.
Tick(c) ==
  /\ c \in cfg.crawlers
  /\ ~tick[c]
  /\ \E w \in Running(c) : workers[c][w].st = "send"
  /\ tick' = [tick EXCEPT ![c] = TRUE]
  /\ hist' = [hist EXCEPT ![c].ticks = @ + 1]
  /\ UNCHANGED <<cfg, fetch, botVars, snap, embed, healthAccess, schedVars, uniqueIdx, storeVars, pc, cycles, cancelled, src, queue, closed,
                 errorChan, cur, newProducts, notifyVars, result, stats, health, sendLog>>

\* wg.Wait() is over: NotifyNewProducts returns, Run records the outcome and
\* returns (part_004:114-128, food_repository.go:673-713).
NotifyEnd(c) ==
  /\ pc[c] = "notify"
  /\ idx[c] > Len(newProducts[c])
  /\ Running(c) = {}
  /\ LET failed == Len(notificationErrors[c]) > 0
         crawlErrors == IF failed THEN Append(errorChan[c], "notify") ELSE errorChan[c]
     IN
     /\ stats' = [stats EXCEPT ![c] = StoreLastError(
           [@ EXCEPT !.lastError = IF failed THEN "err" ELSE @,
                     !.notifiedProducts = IF failed THEN @ ELSE Len(newProducts[c])],
           ReturnKind(crawlErrors))]
     /\ result' = [result EXCEPT ![c] = ReturnKind(crawlErrors)]
     /\ sched' = [sched EXCEPT ![c] = AfterRun(ReturnKind(crawlErrors))]
  /\ pc' = [pc EXCEPT ![c] = "idle"]
  /\ UNCHANGED schedTick
  /\ UNCHANGED <<cfg, fetch, botVars, snap, embed, healthAccess, uniqueIdx, storeVars, cycles, cancelled, src, queue, closed,
                 errorChan, cur, newProducts, notifyVars, tick, health, sendLog, hist>>

\* ------------------------------------------------------------- BaseCrawler.FetchURL
\* What one turn of FetchURL's loop can meet: the request cannot be made, the
\* transport fails, the status is not 200, the body cannot be read, or the body
\* is read.
FetchFailures == {"transport", "status", "read"}
FetchOutcomes == FetchFailures \cup {"badreq", "ok"}

\* The outcome the next turn of the loop meets.
FetchOutcome == fetch.outcomes[fetch.retries + 1]

\* (MayRetryOnceMore: the bound is tested with <= in place of <.)
MayRetryOnceMore(retries) == retries <= MaxRetries

\* retries < maxRetries: the loop condition and the test after retries++
\* (base_crawler.go:47, 68, 84, 100).
MayRetry(retries) == retries < MaxRetries

pipelineVars == <<cfg, uniqueIdx, products, notified, alertMeta, pc, cycles, cancelled,
                  src, queue, closed, errorChan, cur, newProducts, idx, workers,
                  notificationErrors, tick, result, stats, health, sendLog, hist,
                  sched, schedTick>>

\* A FetchURL call has been entered (retries = 0); the network's answers to
\* its attempts are fixed here.
InitFetch ==
  /\ cfg = [crawlers |-> {}, sources |-> {}, results |-> {}, cycles |-> 0,
            advisory |-> FALSE, faults |-> FALSE]
  /\ uniqueIdx = {}
  /\ InitCommon
  /\ InitRest
  /\ \E o \in [1..(MaxRetries + 1) -> FetchOutcomes] :
       fetch = [st |-> "run", outcomes |-> o, retries |-> 0, attempts |-> 0, cause |-> "none"]

\* http.NewRequestWithContext fails: return at once (base_crawler.go:48-52).
FetchBadRequest ==
  /\ fetch.st = "run"
  /\ MayRetry(fetch.retries)
  /\ FetchOutcome = "badreq"
  /\ fetch' = [fetch EXCEPT !.st = "err", !.cause = "badreq"]
  /\ UNCHANGED <<pipelineVars, botVars, snap, embed, healthAccess>>

\* A failed attempt: retries++, then sleep and go on when retries < maxRetries,
\* else return the error with the cause of this attempt.
FetchFailed(fx, kind) ==
  [fx EXCEPT !.attempts = @ + 1,
             !.retries = @ + 1,
             !.st = IF MayRetry(fx.retries + 1) THEN "run" ELSE "err",
             !.cause = IF MayRetry(fx.retries + 1) THEN @ ELSE kind]

\* c.Client.Do fails (base_crawler.go:60-73).
FetchTransportError ==
  /\ fetch.st = "run"
  /\ MayRetry(fetch.retries)
  /\ FetchOutcome = "transport"
  /\ fetch' = FetchFailed(fetch, "transport")
  /\ UNCHANGED <<pipelineVars, botVars, snap, embed, healthAccess>>

\* resp.StatusCode != http.StatusOK (base_crawler.go:76-89).
FetchBadStatus ==
  /\ fetch.st = "run"
  /\ MayRetry(fetch.retries)
  /\ FetchOutcome = "status"
  /\ fetch' = FetchFailed(fetch, "status")
  /\ UNCHANGED <<pipelineVars, botVars, snap, embed, healthAccess>>

\* io.ReadAll fails (base_crawler.go:91-105).
FetchReadError ==
  /\ fetch.st = "run"
  /\ MayRetry(fetch.retries)
  /\ FetchOutcome = "read"
  /\ fetch' = FetchFailed(fetch, "read")
  /\ UNCHANGED <<pipelineVars, botVars, snap, embed, healthAccess>>

\* The body is read: return content, nil (base_crawler.go:107-111).
FetchSuccess ==
  /\ fetch.st = "run"
  /\ MayRetry(fetch.retries)
  /\ FetchOutcome = "ok"
  /\ fetch' = [fetch EXCEPT !.attempts = @ + 1, !.st = "ok"]
  /\ UNCHANGED <<pipelineVars, botVars, snap, embed, healthAccess>>

\* The return after the loop (base_crawler.go:114) is never reached: every
\* failed turn that makes retries reach maxRetries returns inside the loop.
NextFetch ==
  \/ FetchBadRequest
  \/ FetchTransportError
  \/ FetchBadStatus
  \/ FetchReadError
  \/ FetchSuccess

\* FetchURL is sequential code: a turn that can be taken is taken.
SpecFetch == InitFetch /\ [][NextFetch]_vars /\ WF_vars(NextFetch)

\* ------------------------------------------------------------- createProductEmbed
\* The subscribers of the alerts handed to createProductEmbed and the Username
\* their alerts recorded ("" for none).
EmbedUsers == {"w1", "w2", "w3"}
EmbedUsername == [w1 |-> "ann", w2 |-> "", w3 |-> "bob"]
EmbedAlert(u) == [userID |-> u, username |-> EmbedUsername[u]]

\* The matching alerts of one listing: up to MaxAlerts alerts of these
\* subscribers, a subscriber's several keywords being several alerts.
EmbedInputs ==
  UNION {[1..n -> {EmbedAlert(u) : u \in EmbedUsers}] : n \in 0..MaxAlerts}

InitEmbed ==
  /\ cfg = [crawlers |-> {}, sources |-> {}, results |-> {}, cycles |-> 0,
            advisory |-> FALSE, faults |-> FALSE]
  /\ uniqueIdx = {}
  /\ InitCommon
  /\ fetch = NoFetch
  /\ keywordAlerts = AlertRows
  /\ cmds = NoCmds
  /\ snap = NoSnap
  /\ \E alerts \in EmbedInputs : embed = [st |-> "call", alerts |-> alerts]
  /\ healthAccess = NoAccess

\* The loop over the alerts of NotificationService.createProductEmbed
\* (part_004:218-231): "@"+Username when a Username is set and not in
\* mentionedUsers, else "<@"+UserID+">" when the UserID is not in
\* mentionedUsers; mentionedUsers holds names and ids alike.
RECURSIVE Mentions(_, _)
Mentions(alerts, mentionedUsers) ==
  IF alerts = <<>>
  THEN <<>>
  ELSE LET alert == Head(alerts) IN
       IF alert.username # "" /\ alert.username \notin mentionedUsers
       THEN <<<<"@", alert.username>>>>
              \o Mentions(Tail(alerts), mentionedUsers \cup {alert.username})
       ELSE IF alert.userID \notin mentionedUsers
            THEN <<<<"<@", alert.userID>>>>
                   \o Mentions(Tail(alerts), mentionedUsers \cup {alert.userID})
            ELSE Mentions(Tail(alerts), mentionedUsers)

\* The loop of DiscordNotifier.createProductEmbed
\* (internal/crawler/discord.go:212-220): "@"+Username when the Username is not
\* in mentionedUsers, set or not.
RECURSIVE SimpleMentions(_, _)
SimpleMentions(alerts, mentionedUsers) ==
  IF alerts = <<>>
  THEN <<>>
  ELSE LET alert == Head(alerts) IN
       IF alert.username \notin mentionedUsers
       THEN <<<<"@", alert.username>>>>
              \o SimpleMentions(Tail(alerts), mentionedUsers \cup {alert.username})
       ELSE SimpleMentions(Tail(alerts), mentionedUsers)

CreateProductEmbed ==
  /\ embed.st = "call"
  /\ embed' = [st |-> "done", by |-> "NotificationService", alerts |-> embed.alerts,
               usernames |-> Mentions(embed.alerts, {})]
  /\ UNCHANGED <<pipelineVars, fetch, botVars, snap, healthAccess>>

SimpleCreateProductEmbed ==
  /\ embed.st = "call"
  /\ embed' = [st |-> "done", by |-> "DiscordNotifier", alerts |-> embed.alerts,
               usernames |-> SimpleMentions(embed.alerts, {})]
  /\ UNCHANGED <<pipelineVars, fetch, botVars, snap, healthAccess>>

NextEmbed ==
  \/ CreateProductEmbed
  \/ SimpleCreateProductEmbed

SpecEmbed == InitEmbed /\ [][NextEmbed]_vars

\* ------------------------------------------------------------- AlertCommand
\* The words of a message text (strings.Fields, part_001:47) and the keyword a
\* handler makes of them (strings.Join(args, " "), part_002:66, 130).
WordEnd(t) ==
  IF \E i \in 1..Len(t) : t[i] = " "
  THEN (CHOOSE i \in 1..Len(t) : t[i] = " " /\ \A j \in 1..(i - 1) : t[j] # " ") - 1
  ELSE Len(t)

RECURSIVE Fields(_)
Fields(text) ==
  LET t == TrimLeft(text) IN
  IF t = <<>>
  THEN <<>>
  ELSE <<SubSeq(t, 1, WordEnd(t))>> \o Fields(SubSeq(t, WordEnd(t) + 1, Len(t)))

RECURSIVE JoinWords(_)
JoinWords(args) ==
  IF args = <<>> THEN <<>>
  ELSE IF Len(args) = 1 THEN args[1]
  ELSE args[1] \o <<" ">> \o JoinWords(Tail(args))

\* The users who type commands, what they type after "alert add" or "alert
\* remove", and the _id the store gives the n-th inserted alert.
AlertUsers == {"w1", "w2"}
TypedTexts == {<<"M", "o", "n">>, <<" ", "m", "o", "n", " ">>, <<" ">>}
InsertedIds == <<"c1", "c2", "c3", "c4", "c5">>

\* The bot next to a store in which the unique index on (user_id, keyword) was
\* created or not; the crawler is not followed.
InitAlerts ==
  /\ cfg = [crawlers |-> {}, sources |-> {}, results |-> {}, cycles |-> 0,
            advisory |-> FALSE, faults |-> TRUE]
  /\ uniqueIdx \in {{}, {"keyword_alerts"}}
  /\ InitCommon
  /\ fetch = NoFetch
  /\ InitRest

\* checkAlertExists: an active alert of the user with this very keyword
\* (part_002:231-245).
CheckAlertExists(userID, keyword) ==
  \E r \in keywordAlerts : r.userID = userID /\ r.keyword = keyword /\ r.isActive

\* The unique index on (user_id, keyword) rejects a second row with the pair
\* (food_repository.go:466-472).
AlertInsertRejected(userID, keyword) ==
  /\ "keyword_alerts" \in uniqueIdx
  /\ \E r \in keywordAlerts : r.userID = userID /\ r.keyword = keyword

\* "alert add": without a keyword, with a failed check or with an alert that
\* exists the handler answers and returns; otherwise it goes on to the insert
\* (part_002:60-95).
AlertAddCheck(userID, text) ==
  /\ cmds.n < MaxCommands
  /\ LET keyword == JoinWords(Fields(text)) IN
     \E ok \in BOOLEAN :
       cmds' = [n |-> cmds.n + 1,
                h |-> IF Len(Fields(text)) = 0 \/ ~ok \/ CheckAlertExists(userID, keyword)
                      THEN cmds.h
                      ELSE cmds.h \cup {[no |-> cmds.n + 1, userID |-> userID,
                                         keyword |-> keyword]}]
  /\ UNCHANGED <<pipelineVars, fetch, keywordAlerts, snap, embed, healthAccess>>

\* collection.InsertOne(ctx, alert) and the answer (part_002:97-121).
AlertAddInsert(h) ==
  /\ h \in cmds.h
  /\ cmds' = [cmds EXCEPT !.h = @ \ {h}]
  /\ \E ok \in BOOLEAN :
       keywordAlerts' =
         IF ok /\ ~AlertInsertRejected(h.userID, h.keyword)
         THEN keywordAlerts \cup {[id |-> InsertedIds[h.no], userID |-> h.userID,
                                   keyword |-> h.keyword, isActive |-> TRUE]}
         ELSE keywordAlerts
  /\ UNCHANGED <<pipelineVars, fetch, snap, embed, healthAccess>>

\* "alert remove": DeleteOne of a row of the user with this very keyword
\* (part_002:124-170).
AlertRemove(userID, text) ==
  /\ cmds.n < MaxCommands
  /\ cmds' = [cmds EXCEPT !.n = @ + 1]
  /\ LET keyword == JoinWords(Fields(text))
         found == {r \in keywordAlerts : r.userID = userID /\ r.keyword = keyword}
     IN
     \E ok \in BOOLEAN :
       IF Len(Fields(text)) = 0 \/ ~ok \/ found = {}
       THEN UNCHANGED keywordAlerts
       ELSE \E r \in found : keywordAlerts' = keywordAlerts \ {r}
  /\ UNCHANGED <<pipelineVars, fetch, snap, embed, healthAccess>>

\* The handlers of discordgo run in goroutines of their own: the steps of
\* several commands interleave.
NextAlerts ==
  \/ \E userID \in AlertUsers, text \in TypedTexts :
       \/ AlertAddCheck(userID, text)
       \/ AlertRemove(userID, text)
  \/ \E h \in cmds.h : AlertAddInsert(h)

SpecAlerts == InitAlerts /\ [][NextAlerts]_vars

\* ------------------------------------------------------------- Crawler.Run
\* The crawler of cmd/pricesota/main.go:45: Crawler.Run with the
\* DiscordNotifier.  It has no statistics, no errorChan and no scheduler state
\* of its own in this model; its source goroutines are "crawl", "lock" (waiting
\* for mu), "send" (holding mu, in the loop over the listings) or "done".
simpleUnused == <<cfg, uniqueIdx, alertMeta, errorChan, cur, tick, stats, health,
                  schedVars, fetch, botVars, snap, embed, healthAccess>>

\* One process of that crawler with two sources, which return one listing or
\* more listings than the queue holds; one cycle; the unique indices exist when
\* another program created them.
InitSimple ==
  /\ cfg = [crawlers |-> {"A"}, sources |-> Sources, results |-> {<<L1>>, <<L3, L2, L1>>},
            cycles |-> 1, advisory |-> FALSE, faults |-> TRUE]
  /\ uniqueIdx \in {{}, {"products", "notified"}}
  /\ InitCommon
  /\ fetch = NoFetch
  /\ InitRest

\* Run starts: the channel, the WaitGroup, the mutex and one goroutine per
\* source (part_006:75-85).
SimpleRunStart(c) ==
  /\ c \in cfg.crawlers
  /\ pc[c] = "idle"
  /\ cycles[c] < cfg.cycles
  /\ pc' = [pc EXCEPT ![c] = "crawl"]
  /\ cycles' = [cycles EXCEPT ![c] = @ + 1]
  /\ src' = [src EXCEPT ![c] = [s \in Sources |->
        [st |-> IF s \in cfg.sources THEN "crawl" ELSE "done", pending |-> <<>>]]]
  /\ queue' = [queue EXCEPT ![c] = <<>>]
  /\ closed' = [closed EXCEPT ![c] = FALSE]
  /\ newProducts' = [newProducts EXCEPT ![c] = <<>>]
  /\ idx' = [idx EXCEPT ![c] = 1]
  /\ workers' = [workers EXCEPT ![c] = <<>>]
  /\ notificationErrors' = [notificationErrors EXCEPT ![c] = <<>>]
  /\ result' = [result EXCEPT ![c] = "none"]
  /\ hist' = [hist EXCEPT ![c] =
        [InitHist EXCEPT !.preStore = StoredUrls, !.earlyCancel = cancelled[c]]]
  /\ UNCHANGED <<simpleUnused, storeVars, cancelled, sendLog>>

\* source.Crawl fails: the error is logged and the goroutine returns
\* (part_006:88-95).
SimpleCrawlFail(c, s) ==
  /\ pc[c] = "crawl"
  /\ src[c][s].st = "crawl"
  /\ src' = [src EXCEPT ![c][s].st = "done"]
  /\ hist' = [hist EXCEPT ![c].failedSrc = @ \cup {s}]
  /\ UNCHANGED <<simpleUnused, storeVars, pc, cycles, cancelled, queue, closed, newProducts,
                 notifyVars, result, sendLog>>

\* source.Crawl succeeds: the goroutine goes for the mutex (part_006:88-102).
SimpleCrawlOk(c, s) ==
  /\ pc[c] = "crawl"
  /\ src[c][s].st = "crawl"
  /\ \E ps \in cfg.results :
       /\ src' = [src EXCEPT ![c][s] = [st |-> "lock", pending |-> ps]]
       /\ hist' = [hist EXCEPT ![c].returned = @ \cup {ps[i].url : i \in 1..Len(ps)}]
  /\ UNCHANGED <<simpleUnused, storeVars, pc, cycles, cancelled, queue, closed, newProducts,
                 notifyVars, result, sendLog>>

\* mu.Lock() (part_006:102): no other goroutine holds the mutex.
SimpleLock(c, s) ==
  /\ src[c][s].st = "lock"
  /\ \A t \in Sources : src[c][t].st # "send"
  /\ src' = [src EXCEPT ![c][s].st = "send"]
  /\ UNCHANGED <<simpleUnused, storeVars, pc, cycles, cancelled, queue, closed, newProducts,
                 notifyVars, result, sendLog, hist>>

\* productChan <- product (part_006:103-105): needs a free slot; the send has
\* no other case.
SimplePush(c, s) ==
  /\ src[c][s].st = "send"
  /\ src[c][s].pending # <<>>
  /\ Len(queue[c]) < QueueCap
  /\ queue' = [queue EXCEPT ![c] = Append(@, Head(src[c][s].pending))]
  /\ src' = [src EXCEPT ![c][s].pending = Tail(@)]
  /\ UNCHANGED <<simpleUnused, storeVars, pc, cycles, cancelled, closed, newProducts,
                 notifyVars, result, sendLog, hist>>

\* mu.Unlock() after the loop, and the goroutine returns (part_006:106-108).
SimpleUnlock(c, s) ==
  /\ src[c][s].st = "send"
  /\ src[c][s].pending = <<>>
  /\ src' = [src EXCEPT ![c][s].st = "done"]
  /\ UNCHANGED <<simpleUnused, storeVars, pc, cycles, cancelled, queue, closed, newProducts,
                 notifyVars, result, sendLog, hist>>

\* wg.Wait(); close(productChan) (part_006:113-117).
SimpleCloser(c) ==
  /\ pc[c] = "crawl"
  /\ ~closed[c]
  /\ AllSourcesDone(c)
  /\ closed' = [closed EXCEPT ![c] = TRUE]
  /\ UNCHANGED <<simpleUnused, storeVars, pc, cycles, cancelled, src, queue, newProducts,
                 notifyVars, result, sendLog, hist>>

\* One turn of the range over productChan (part_006:126-160): the count, and
\* for a url without a row the insert, to which the driver gives an _id; a
\* failure of either call is logged and the loop goes on.  The loop has no
\* case for ctx.
SimpleDrain(c) ==
  /\ pc[c] = "crawl"
  /\ queue[c] # <<>>
  /\ queue' = [queue EXCEPT ![c] = Tail(@)]
  /\ \E okCount \in StoreCall(c), okInsert \in StoreCall(c) :
       LET p == Head(queue[c])
           done == /\ IsNewProduct(okCount, p.url)
                   /\ okInsert
                   /\ ~InsertRejected("products", products, p.url)
       IN
       /\ products' = IF done
                      THEN products \cup {ProductRow([p EXCEPT !.id = NewObjectID(c)])}
                      ELSE products
       /\ newProducts' = [newProducts EXCEPT ![c] = AppendNew(done, @, p)]
       /\ hist' = [hist EXCEPT ![c].storeFault =
                      @ \/ ~okCount \/ (IsNewProduct(okCount, p.url) /\ ~done)]
  /\ UNCHANGED <<simpleUnused, notified, pc, cycles, cancelled, src, closed, notifyVars,
                 result, sendLog>>

\* The range ends; without a new listing Run returns nil; otherwise
\* SendProductNotifications starts with the Find of the active alerts, whose
\* failure it returns and Run only logs (part_006:162-172, part_005:109-130).
SimpleDrainEnd(c) ==
  /\ pc[c] = "crawl"
  /\ RangeEnds(c)
  /\ \E ok \in StoreCall(c) :
       IF Len(newProducts[c]) > 0 /\ ok
       THEN /\ pc' = [pc EXCEPT ![c] = "notify"]
            /\ UNCHANGED result
       ELSE /\ pc' = [pc EXCEPT ![c] = "idle"]
            /\ result' = [result EXCEPT ![c] = "nil"]
  /\ UNCHANGED <<simpleUnused, storeVars, cycles, cancelled, src, queue, closed, newProducts,
                 notifyVars, sendLog, hist>>

\* findMatchingAlerts: the active alerts whose lower-cased keyword is in the
\* lower-cased title (internal/crawler/discord.go:185-197, part_005:120).
SimpleFindMatching(p) ==
  SelectSeq(AlertOrder,
            LAMBDA a : Alerts[a].isActive
                       /\ Contains(ToLower(p.title), ToLower(Alerts[a].keyword)))

\* The channels of the alerts in the order of their first alert: the loop calls
\* a channel that has neither been sent to nor failed (part_005:167-168).
RECURSIVE DistinctChannels(_, _)
DistinctChannels(m, seen) ==
  IF m = <<>>
  THEN <<>>
  ELSE IF Alerts[Head(m)].channelID \in seen
       THEN DistinctChannels(Tail(m), seen)
       ELSE <<Alerts[Head(m)].channelID>>
              \o DistinctChannels(Tail(m), seen \cup {Alerts[Head(m)].channelID})

\* The head of one turn of SendProductNotifications' loop over the listings
\* (part_005:136-153): a failed check of notified_products is collected and the
\* listing is left out; a notified listing and a listing no alert matches are
\* left out; otherwise the listing goes to the sends.
SimpleNotifyCheck(c) ==
  /\ pc[c] = "notify"
  /\ idx[c] <= Len(newProducts[c])
  /\ Len(workers[c]) < idx[c]
  /\ LET p == newProducts[c][idx[c]]
         m == SimpleFindMatching(p)
     IN
     \E okCheck \in StoreCall(c) :
       LET skip == ~okCheck \/ p.url \in NotifiedUrls IN
       /\ workers' = [workers EXCEPT ![c] = Append(@,
             [NewWorker(p, IF skip THEN "skipped" ELSE IF m = <<>> THEN "done" ELSE "send")
                EXCEPT !.alerts = IF skip THEN <<>> ELSE m,
                       !.ret = IF ~okCheck THEN "check" ELSE IF skip \/ m = <<>> THEN "nil"
                               ELSE "none"])]
       /\ notificationErrors' = [notificationErrors EXCEPT ![c] =
             IF ~okCheck THEN Append(@, "check") ELSE @]
       /\ idx' = [idx EXCEPT ![c] = IF skip \/ m = <<>> THEN @ + 1 ELSE @]
  /\ UNCHANGED <<simpleUnused, storeVars, pc, cycles, cancelled, src, queue, closed,
                 newProducts, result, sendLog, hist>>

\* The sends of one listing (part_005:155-203): the channels of the matching
\* alerts are called one after the other, each call behind a tick of the
\* limiter, which keeps ticking; with ctx cancelled the wait can end with
\* ctx.Done(), which ends SendProductNotifications and, Run only logging the
\* error, Run (part_005:170-175, part_006:166-172).  The mark is written when a
\* channel was sent to; its failure is collected.
SimpleNotifySend(c) ==
  /\ pc[c] = "notify"
  /\ idx[c] <= Len(newProducts[c])
  /\ Len(workers[c]) = idx[c]
  /\ LET wk == workers[c][idx[c]]
         p == wk.p
         chs == DistinctChannels(wk.alerts, {})
     IN
     \E okMark \in StoreCall(c), k \in 0..Len(chs), okSet \in SUBSET Channels :
       LET tried == {chs[i] : i \in 1..k}
           stopped == k < Len(chs)
           marking == ~stopped /\ okSet # {}
           inserted == marking /\ okMark /\ ~InsertRejected("notified", notified, p.url)
       IN
       /\ stopped => cancelled[c]
       /\ okSet \subseteq tried
       /\ workers' = [workers EXCEPT ![c][idx[c]] =
             [wk EXCEPT !.st = "done",
                        !.sent = okSet,
                        !.failed = tried \ okSet,
                        !.nerr = Cardinality(tried \ okSet),
                        !.calls = [ch \in Channels |-> IF ch \in tried THEN 1 ELSE 0],
                        !.ret = IF stopped THEN "ctx" ELSE "nil",
                        !.mark = IF ~marking THEN "none" ELSE IF inserted THEN "ok" ELSE "err"]]
       /\ notified' = IF inserted THEN notified \cup {NotifiedRow(p)} ELSE notified
       /\ notificationErrors' = [notificationErrors EXCEPT ![c] =
             @ \o [i \in 1..Cardinality(tried \ okSet) |-> "send"]
               \o (IF marking /\ ~inserted THEN <<"mark">> ELSE <<>>)]
       /\ sendLog' = [sendLog EXCEPT !.ok = @ \cup (IF okSet # {} THEN {p.url} ELSE {}),
                                     !.fail = @ \cup (IF tried \ okSet # {} THEN {p.url}
                                                      ELSE {})]
       /\ hist' = [hist EXCEPT ![c].called = @ \/ tried # {},
                               ![c].calls = @ + Cardinality(tried),
                               ![c].written = IF inserted THEN @ \cup {p.url} ELSE @]
       /\ idx' = [idx EXCEPT ![c] = @ + 1]
       /\ pc' = [pc EXCEPT ![c] = IF stopped THEN "idle" ELSE @]
       /\ result' = [result EXCEPT ![c] = IF stopped THEN "nil" ELSE @]
  /\ UNCHANGED <<simpleUnused, products, cycles, cancelled, src, queue, closed,
                 newProducts>>

\* The loop over the listings is over: SendProductNotifications returns, Run
\* logs an error it returned, and returns nil (part_005:205-211,
\* part_006:166-172).
SimpleNotifyEnd(c) ==
  /\ pc[c] = "notify"
  /\ idx[c] > Len(newProducts[c])
  /\ pc' = [pc EXCEPT ![c] = "idle"]
  /\ result' = [result EXCEPT ![c] = "nil"]
  /\ UNCHANGED <<simpleUnused, storeVars, cycles, cancelled, src, queue, closed, newProducts,
                 notifyVars, sendLog, hist>>

NextSimple ==
  \E c \in Crawlers :
    \/ SimpleRunStart(c)
    \/ Cancel(c)
    \/ \E s \in Sources :
         \/ SimpleCrawlFail(c, s)
         \/ SimpleCrawlOk(c, s)
         \/ SimpleLock(c, s)
         \/ SimplePush(c, s)
         \/ SimpleUnlock(c, s)
    \/ SimpleCloser(c)
    \/ SimpleDrain(c)
    \/ SimpleDrainEnd(c)
    \/ SimpleNotifyCheck(c)
    \/ SimpleNotifySend(c)
    \/ SimpleNotifyEnd(c)

SpecSimple == InitSimple /\ [][NextSimple]_vars

\* ------------------------------------------------------------- specification
Next ==
  \E c \in Crawlers :
    \/ RunStart(c)
    \/ SchedTick(c)
    \/ SchedStop(c)
    \/ Cancel(c)
    \/ Tick(c)
    \/ \E s \in Sources :
         \/ SourceCrawlFail(c, s)
         \/ SourceCrawlOk(c, s)
         \/ SourcePush(c, s)
         \/ SourcePushCancelled(c, s)
    \/ Closer(c)
    \/ DrainCancelled(c)
    \/ DrainCheck(c)
    \/ DrainInsert(c)
    \/ DrainEnd(c)
    \/ NotifyLoop(c)
    \/ \E w \in 1..Len(workers[c]) :
         \/ WorkerMatch(c, w)
         \/ WorkerDeliver(c, w)
         \/ WorkerCtxDone(c, w)
         \/ WorkerFinish(c, w)
    \/ NotifyEnd(c)

Spec == Init /\ [][Next]_vars

\* ------------------------------------------------------------- GetStats
\* One crawler process with one source; the run follows the statistics and one
\* caller of GetStats.
InitSnapshot ==
  /\ cfg = [crawlers |-> {"A"}, sources |-> {"s1"}, results |-> {<<L3>>},
            cycles |-> MaxCycles, advisory |-> TRUE, faults |-> FALSE]
  /\ uniqueIdx = {"products", "notified"}
  /\ InitCommon
  /\ fetch = NoFetch
  /\ InitRest

\* statsCopy := c.stats; return statsCopy (food_repository.go:753-760): the
\* fields of the struct are copied; the field SourceStats is a map, so the copy
\* holds the crawler's own map (mapOf names whose).  seen is what the map held
\* at the return and after the caller's own writes.
GetStats(c) ==
  /\ c \in cfg.crawlers
  /\ ~snap.taken
  /\ snap' = [taken |-> TRUE,
              totalProducts |-> stats[c].totalProducts,
              newProducts |-> stats[c].newProducts,
              notifiedProducts |-> stats[c].notifiedProducts,
              lastError |-> stats[c].lastError,
              mapOf |-> c,
              seen |-> stats[c].sourceStats,
              writes |-> 0]
  /\ UNCHANGED <<pipelineVars, fetch, botVars, embed, healthAccess>>

\* The per-source statistics read through the value GetStats returned.
SnapshotSourceStats == stats[snap.mapOf].sourceStats

\* The caller changes the value it holds: it puts an empty entry for a source
\* into the value's SourceStats, which is the crawler's map.
CallerWrites(s) ==
  /\ snap.taken
  /\ snap.writes = 0
  /\ s \in cfg.sources
  /\ snap' = [snap EXCEPT !.writes = 1, !.seen[s] = InitSourceStats]
  /\ stats' = [stats EXCEPT ![snap.mapOf].sourceStats[s] = InitSourceStats]
  /\ UNCHANGED <<cfg, uniqueIdx, storeVars, pc, cycles, cancelled, src, queue, closed,
                 errorChan, cur, newProducts, notifyVars, tick, result, health, sendLog, hist,
                 schedVars, fetch, botVars, embed, healthAccess>>

NextSnapshot ==
  \/ Next
  \/ \E c \in Crawlers : GetStats(c)
  \/ \E s \in Sources : CallerWrites(s)

SpecSnapshot == InitSnapshot /\ [][NextSnapshot]_vars

\* ------------------------------------------------------------- c.healthStatus
\* One crawler process with two sources; the accesses to c.healthStatus are
\* followed one by one, and one caller of Health.
InitHealth ==
  /\ cfg = [crawlers |-> {"A"}, sources |-> Sources, results |-> {<<L3>>},
            cycles |-> 1, advisory |-> TRUE, faults |-> FALSE]
  /\ uniqueIdx = {"products", "notified"}
  /\ InitCommon
  /\ fetch = NoFetch
  /\ keywordAlerts = AlertRows
  /\ cmds = NoCmds
  /\ snap = NoSnap
  /\ embed = NoEmbed
  /\ healthAccess = [on |-> TRUE, writers |-> {}, reader |-> "none", during |-> {}]

\* c.healthStatus[sourceName] = true (food_repository.go:573), after
\* c.statsMutex.Unlock() (570): the goroutine of s starts the map write, whoever
\* else is writing or reading.
HealthWrite(c, s) ==
  /\ healthAccess.on
  /\ src[c][s].st = "health"
  /\ src' = [src EXCEPT ![c][s].st = "writing"]
  /\ healthAccess' = [healthAccess EXCEPT !.writers = @ \cup {s}]
  /\ UNCHANGED <<cfg, uniqueIdx, storeVars, pc, cycles, cancelled, queue, closed,
                 errorChan, cur, newProducts, notifyVars, tick, result, stats, health,
                 sendLog, hist, schedVars, fetch, botVars, snap, embed>>

\* What a map write leaves: the entry when no other write was in progress; with
\* another write in progress the entry, nothing, or the runtime's fatal
\* "concurrent map writes".
WriteOutcomes(s) ==
  IF healthAccess.writers = {s} THEN {"written"} ELSE {"written", "lost", "fatal"}

\* The map write of the goroutine of s ends (food_repository.go:573); the
\* goroutine goes on to send its listings (576-595).
HealthWritten(c, s) ==
  /\ healthAccess.on
  /\ src[c][s].st = "writing"
  /\ \E o \in WriteOutcomes(s) :
       /\ health' = IF o = "written" THEN [health EXCEPT ![c] = @ \cup {s}] ELSE health
       /\ src' = [src EXCEPT ![c][s].st =
             IF o = "fatal" THEN "fatal"
             ELSE IF Len(src[c][s].pending) = 0 THEN "done" ELSE "push"]
  /\ healthAccess' = [healthAccess EXCEPT !.writers = @ \ {s}]
  /\ UNCHANGED <<cfg, uniqueIdx, storeVars, pc, cycles, cancelled, queue, closed,
                 errorChan, cur, newProducts, notifyVars, tick, result, stats,
                 sendLog, hist, schedVars, fetch, botVars, snap, embed>>

\* Health returns c.healthStatus itself, without a lock and without a copy
\* (food_repository.go:763-765).
Health(c) ==
  /\ healthAccess.on
  /\ c \in cfg.crawlers
  /\ healthAccess.reader = "none"
  /\ healthAccess' = [healthAccess EXCEPT !.reader = "holds"]
  /\ UNCHANGED <<pipelineVars, fetch, botVars, snap, embed>>

\* The caller reads the map Health returned; during names the writes in
\* progress at that read.
HealthRead ==
  /\ healthAccess.on
  /\ healthAccess.reader = "holds"
  /\ healthAccess' = [healthAccess EXCEPT !.reader = "read", !.during = healthAccess.writers]
  /\ UNCHANGED <<pipelineVars, fetch, botVars, snap, embed>>

NextHealth ==
  \/ Next
  \/ \E c \in Crawlers, s \in Sources : HealthWrite(c, s)
  \/ \E c \in Crawlers, s \in Sources : HealthWritten(c, s)
  \/ \E c \in Crawlers : Health(c)
  \/ HealthRead

SpecHealth == InitHealth /\ [][NextHealth]_vars

\* ------------------------------------------------------------- ticker during Run
\* One crawler process with one source and MaxCycles cycles; the scheduler's
\* ticker is followed while c.Run is in flight too.
InitSchedule ==
  /\ cfg = [crawlers |-> {"A"}, sources |-> {"s1"}, results |-> {<<L1>>},
            cycles |-> MaxCycles, advisory |-> FALSE, faults |-> TRUE]
  /\ uniqueIdx = {"products", "notified"}
  /\ InitCommon
  /\ fetch = NoFetch
  /\ InitRest

\* The ticker fires while c.Run is in flight (food_repository.go:717, 724, 737):
\* ticker.C holds the tick until the loop is back at its select.
SchedTickInRun(c) ==
  /\ c \in cfg.crawlers
  /\ sched[c] = "run"
  /\ ~schedTick[c]
  /\ schedTick' = [schedTick EXCEPT ![c] = TRUE]
  /\ UNCHANGED <<cfg, fetch, botVars, snap, embed, healthAccess, sched, uniqueIdx, storeVars, pc, cycles, cancelled, src, queue,
                 closed, errorChan, cur, newProducts, notifyVars, tick, result, stats,
                 health, sendLog, hist>>

NextSchedule ==
  \/ Next
  \/ \E c \in Crawlers : SchedTickInRun(c)

SpecSchedule == InitSchedule /\ [][NextSchedule]_vars

\* ------------------------------------------------------------- fair scheduling
\* A step of a task of crawler c's cycle: a source goroutine, the closer, the
\* drain loop, NotifyNewProducts' loop, a dispatch goroutine, or the limiter's
\* ticker.
PipelineStep(c) ==
  \/ Tick(c)
  \/ \E s \in Sources :
       \/ SourceCrawlFail(c, s)
       \/ SourceCrawlOk(c, s)
       \/ SourcePush(c, s)
       \/ SourcePushCancelled(c, s)
  \/ Closer(c)
  \/ DrainCancelled(c)
  \/ DrainCheck(c)
  \/ DrainInsert(c)
  \/ DrainEnd(c)
  \/ NotifyLoop(c)
  \/ \E w \in 1..Len(workers[c]) :
       \/ WorkerMatch(c, w)
       \/ WorkerDeliver(c, w)
       \/ WorkerCtxDone(c, w)
       \/ WorkerFinish(c, w)
  \/ NotifyEnd(c)

\* Six new listings, more than the queue and more than the semaphore hold; one
\* of them (L3) is matched by a subscription.
LiveBatch == <<L3, [L2 EXCEPT !.url = "u1"], L2, L4, L5, L6>>

\* One crawler process, one source that returns LiveBatch, one cycle, both
\* unique indices, and a store that fails no call on its own.
InitLive ==
  /\ cfg = [crawlers |-> {"A"}, sources |-> {"s1"}, results |-> {LiveBatch},
            cycles |-> 1, advisory |-> FALSE, faults |-> FALSE]
  /\ uniqueIdx = {"products", "notified"}
  /\ InitCommon
  /\ fetch = NoFetch
  /\ InitRest

\* The scheduler does not stop the tasks of a cycle: source.Crawl returns, the
\* limiter keeps ticking, and a goroutine that can take a step takes one.
SpecLive ==
  InitLive /\ [][Next]_vars /\ \A c \in Crawlers : WF_vars(PipelineStep(c))

SpecOverlap == InitOverlap /\ [][Next]_vars

SpecRace == InitRace /\ [][Next]_vars

SpecDispatch == InitDispatch /\ [][Next]_vars

SpecStatistics == InitStatistics /\ [][Next]_vars

SpecMatch == InitMatch /\ [][Next]_vars

SpecMatcher == InitMatcher /\ [][Next]_vars

\* ------------------------------------------------------------- properties
\* Run has returned in crawler c (a cycle was run and is over).
Returned(c) == pc[c] = "idle" /\ result[c] # "none"

\* The drain of the cycle ran to its end (the range loop ended, no early return).
Drained(c) == pc[c] = "notify" \/ (Returned(c) /\ result[c] # "cancelled")

NewUrls(c) == {newProducts[c][i].url : i \in 1..Len(newProducts[c])}

WorkersOf(c) == {workers[c][w] : w \in 1..Len(workers[c])}

\* sendProductNotifications went through all its alerts (no return on ctx.Done()).
LoopCompleted(wk) == wk.st = "done" /\ wk.ret \in {"nil", "allfailed", "partial"}

TotalCalls(wk) == wk.calls["ch1"] + wk.calls["ch2"]

AlertChannels(wk) == {Alerts[wk.alerts[i]].channelID : i \in 1..Len(wk.alerts)}

\* C1: after any sequence of cycles the products collection holds at most one
\* row per url; a url that was stored before a cycle started never gets into
\* that cycle's newProducts, so a cycle whose sources return only stored urls
\* inserts nothing and has an empty new-listings set.
C1_OneRowPerUrl ==
  /\ \A u \in Urls : CountProducts(u) <= 1
  /\ \A c \in cfg.crawlers :
       /\ NewUrls(c) \cap hist[c].preStore = {}
       /\ (hist[c].returned \subseteq hist[c].preStore => newProducts[c] = <<>>)

\* C1 witness: a second cycle whose sources returned only urls that were
\* already stored has run to its end without a fault.
C1_Witness ==
  /\ cycles["A"] = 2
  /\ Returned("A")
  /\ ~cancelled["A"]
  /\ ~hist["A"].storeFault
  /\ hist["A"].returned # {}
  /\ hist["A"].returned \subseteq hist["A"].preStore
  /\ newProducts["A"] = <<>>

\* C2 (as claimed): a listing handed to NotifyNewProducts whose url already has
\* a NotifiedRecord is skipped: no goroutine is started for it, so no match is
\* computed and no delivery call is made.
C2_NotifiedIsSkipped ==
  \A c \in cfg.crawlers : \A wk \in WorkersOf(c) : wk.hadRecord => wk.st = "skipped"

\* C3 (as claimed): sendProductNotifications makes exactly one delivery call per
\* distinct channel of the matching alerts, whatever the outcome of the call.
C3_OneCallPerChannel ==
  \A c \in cfg.crawlers : \A wk \in WorkersOf(c) :
    /\ \A ch \in Channels : wk.calls[ch] <= 1
    /\ (LoopCompleted(wk) => \A ch \in AlertChannels(wk) : wk.calls[ch] = 1)

\* C4: when sendProductNotifications has gone through its alerts with at least
\* one channel sent and another one failed, the NotifiedRecord of the url is in
\* notified_products and the product row is flagged notified, unless the store
\* refused that write.
C4_PartialSuccessMarks ==
  \A c \in cfg.crawlers : \A wk \in WorkersOf(c) :
    (LoopCompleted(wk) /\ wk.sent # {} /\ wk.failed # {} /\ wk.mark # "err")
      => /\ wk.p.url \in NotifiedUrls
         /\ (wk.flag # "err" => \A r \in products : r.id = wk.p.id => r.notified)

\* C4 witness: ch1 failed, ch2 was sent, and the record and the flag are written.
C4_Witness ==
  \E wk \in WorkersOf("A") :
    /\ LoopCompleted(wk)
    /\ wk.sent = {"ch2"}
    /\ wk.failed = {"ch1"}
    /\ wk.p.url \in NotifiedUrls
    /\ \E r \in products : r.id = wk.p.id /\ r.notified

\* C5: when every delivery call of a listing failed, no NotifiedRecord is
\* written for its url and the notified flag of its row stays false.
C5_AllFailedLeavesUnmarked ==
  \A c \in cfg.crawlers : \A wk \in WorkersOf(c) :
    (LoopCompleted(wk) /\ wk.sent = {} /\ wk.failed # {})
      => /\ wk.p.url \notin NotifiedUrls
         /\ \A r \in products : r.url = wk.p.url => ~r.notified

\* C5 witness: the calls to both channels failed and the goroutine is done.
C5_Witness ==
  \E wk \in WorkersOf("A") :
    /\ LoopCompleted(wk)
    /\ wk.sent = {}
    /\ wk.failed = {"ch1", "ch2"}
    /\ wk.ret = "allfailed"

\* C6 (as claimed): a listing whose deliveries all failed is matched and
\* delivered again in a later cycle in which a source returns its url again
\* (and no second row is inserted for it).
C6_RetriedInLaterCycle ==
  \A c \in cfg.crawlers :
    (Returned(c) /\ Drained(c) /\ ~cancelled[c] /\ ~hist[c].storeFault)
      => \A u \in hist[c].returned \cap hist[c].preStore :
           (u \in sendLog.fail /\ u \notin sendLog.ok /\ u \notin NotifiedUrls)
             => /\ CountProducts(u) = 1
                /\ \E wk \in WorkersOf(c) : wk.p.url = u /\ TotalCalls(wk) > 0

\* C7 (as claimed): once no cycle is running, a NotifiedRecord exists for a url
\* if and only if a delivery call for that listing succeeded.
C7_RecordIffDelivered ==
  (\A c \in cfg.crawlers : pc[c] = "idle")
    => \A u \in Urls : u \in NotifiedUrls <=> u \in sendLog.ok

\* C8: when ctx is cancelled before any delivery call of the cycle has
\* completed, the cycle inserts no NotifiedRecord, and every url stored at the
\* moment of the cancellation is still stored.
C8_EarlyCancelWritesNothing ==
  \A c \in cfg.crawlers :
    hist[c].earlyCancel => /\ hist[c].written = {}
                           /\ hist[c].atCancel \subseteq StoredUrls

\* C8 witness: the cycle inserted a listing, was cancelled before any delivery
\* call, and has returned.
C8_Witness ==
  /\ hist["A"].earlyCancel
  /\ hist["A"].atCancel # {}
  /\ newProducts["A"] # <<>>
  /\ Returned("A")

\* A goroutine of the cycle stopped on ctx.Done(): a source while pushing, the
\* drain, or a dispatch goroutine waiting for the ticker.
StoppedByCancel(c) ==
  \/ \E i \in 1..Len(errorChan[c]) : errorChan[c][i] = "ctx"
  \/ \E i \in 1..Len(notificationErrors[c]) : notificationErrors[c][i] = "ctx"
  \/ result[c] = "cancelled"

\* C9 (as claimed): a cycle that stopped because ctx was cancelled returns an
\* error that is the cancellation error, not a generic one.
C9_CancelReturnsCancellation ==
  \A c \in cfg.crawlers :
    (Returned(c) /\ StoppedByCancel(c)) => result[c] = "cancelled"

\* C10: in a cycle in which a source failed (and that was neither cancelled nor
\* hit by a store fault), every url the other sources returned is stored when
\* the drain is over, and every one that was not stored before is in the batch.
C10_SourceFailureIsolated ==
  \A c \in cfg.crawlers :
    (hist[c].failedSrc # {} /\ Drained(c) /\ ~cancelled[c] /\ ~hist[c].storeFault)
      => \A u \in hist[c].returned :
           /\ u \in StoredUrls
           /\ (u \notin hist[c].preStore => u \in NewUrls(c))

\* C10 witness: s1 failed, s2 returned both listings, and both are in the batch.
C10_Witness ==
  /\ hist["A"].failedSrc = {"s1"}
  /\ hist["A"].returned = {"u1", "u2"}
  /\ pc["A"] = "notify"
  /\ NewUrls("A") = {"u1", "u2"}
  /\ ~cancelled["A"]

\* The goroutines of the batch that returned an error to NotifyNewProducts.
ErrorsOf(c) == {w \in 1..Len(workers[c]) :
                  workers[c][w].ret \in {"match", "ctx", "allfailed", "partial"}}

\* Delivery calls of a goroutine that failed: a channel that was sent to is
\* never called again, so every other call is a failed one.
FailedCalls(wk) == TotalCalls(wk) - Cardinality(wk.sent)

\* C11 (as claimed): a cycle in which sources failed, that was not stopped by a
\* cancellation and whose dispatch reported no error, returns no error.
C11_SourceFailureNotCycleFailure ==
  \A c \in cfg.crawlers :
    (/\ Returned(c)
     /\ hist[c].failedSrc # {}
     /\ ~StoppedByCancel(c)
     /\ notificationErrors[c] = <<>>)
      => result[c] = "nil"

\* C12 (as claimed): when a delivery of the batch succeeded, nothing but
\* deliveries failed (no source, no match, no record write, no cancellation),
\* NotifyNewProducts reports no failure and Run returns no error.
C12_PartialDeliveryNotCycleFailure ==
  \A c \in cfg.crawlers :
    (/\ Returned(c)
     /\ errorChan[c] = <<>>
     /\ \E wk \in WorkersOf(c) : wk.sent # {}
     /\ \E wk \in WorkersOf(c) : wk.failed # {}
     /\ \A wk \in WorkersOf(c) : wk.ret \notin {"match", "ctx"} /\ wk.mark # "err")
      => /\ notificationErrors[c] = <<>>
         /\ result[c] = "nil"

\* C13: a failed delivery call ends nothing.  A goroutine whose call to a
\* channel failed still calls every channel of its alerts, counts one error
\* per failed call (and one for a refused record write) and returns an error;
\* and when NotifyNewProducts returns without a cancellation, every listing of
\* the batch whose alerts were found had every one of its channels called, and
\* every goroutine's error is in the collected errors.
C13_FailureDoesNotAbort ==
  \A c \in cfg.crawlers :
    /\ \A wk \in WorkersOf(c) :
         (LoopCompleted(wk) /\ wk.failed # {})
           => /\ \A ch \in AlertChannels(wk) : wk.calls[ch] >= 1
              /\ wk.nerr = FailedCalls(wk) + (IF wk.mark = "err" THEN 1 ELSE 0)
              /\ wk.ret \in {"allfailed", "partial"}
    /\ (Returned(c) /\ ~cancelled[c])
         => /\ \A wk \in WorkersOf(c) :
                 (wk.st = "done" /\ wk.ret # "match")
                   => \A ch \in AlertChannels(wk) : wk.calls[ch] >= 1
            /\ Len(notificationErrors[c]) = Cardinality(ErrorsOf(c))

\* C13 witness: the call to ch1 for u1 failed, ch2 was still called for u1, and
\* the channel of u3 was called as well; the failure is in the collected errors.
C13_Witness ==
  /\ Returned("A")
  /\ ~cancelled["A"]
  /\ \E wk \in WorkersOf("A") :
       wk.p.url = "u1" /\ wk.failed = {"ch1"} /\ wk.sent = {"ch2"} /\ wk.calls["ch2"] = 1
  /\ \E wk \in WorkersOf("A") : wk.p.url = "u3" /\ wk.calls["ch2"] = 1
  /\ Len(notificationErrors["A"]) >= 1

\* C14: every delivery call takes one tick of the process's limiter: the calls
\* started plus the tick that waits in the limiter's channel are the ticks the
\* channel has held, so there are never more calls than ticks and no tick
\* serves two calls, however many goroutines wait.
C14_EveryCallTakesATick ==
  \A c \in cfg.crawlers :
    /\ hist[c].calls <= hist[c].ticks
    /\ hist[c].calls + (IF tick[c] THEN 1 ELSE 0) = hist[c].ticks

\* C14 witness: two goroutines are in their loops at the same time and each has
\* made a delivery call.
C14_Witness ==
  \E w1, w2 \in 1..Len(workers["A"]) :
    /\ w1 # w2
    /\ workers["A"][w1].st = "send" /\ TotalCalls(workers["A"][w1]) >= 1
    /\ workers["A"][w2].st = "send" /\ TotalCalls(workers["A"][w2]) >= 1
    /\ hist["A"].calls >= 2

\* C15: at most 5 dispatch goroutines hold a semaphore slot at any moment.
C15_AtMostFiveInFlight ==
  \A c \in cfg.crawlers : Cardinality(Running(c)) <= SemCap

\* C15 witness: five goroutines of a batch of six are running and the loop is at
\* the sixth listing.
C15_Witness ==
  /\ Len(newProducts["A"]) = 6
  /\ idx["A"] = 6
  /\ Cardinality(Running("A")) = 5

\* C16: StartScheduledRuns calls Run before anything else, leaves its loop only
\* when ctx is cancelled, is back at its select after a Run that returned an
\* error, and there a tick starts the next Run.
C16_ScheduleSurvivesErrors ==
  \A c \in cfg.crawlers :
    /\ (sched[c] = "start" <=> cycles[c] = 0)
    /\ (sched[c] = "stopped" => cancelled[c])
    /\ (Returned(c) /\ result[c] # "nil" /\ ~cancelled[c]) => sched[c] = "select"
    /\ (sched[c] = "select" /\ schedTick[c] /\ ~cancelled[c] /\ cycles[c] < cfg.cycles)
         => ENABLED RunStart(c)

\* C16 witness: a cycle is running, not cancelled, after a Run that returned an
\* error.
C16_Witness ==
  /\ cycles["A"] = 2
  /\ pc["A"] = "crawl"
  /\ stats["A"].lastError = "err"
  /\ ~cancelled["A"]

\* C17 (as claimed): once ctx is cancelled, StartScheduledRuns starts no cycle.
C17_NoCycleAfterCancel ==
  [][\A c \in Crawlers : cancelled[c] => cycles'[c] = cycles[c]]_vars

\* What holds of a FetchURL call at every moment.
FetchInv ==
  LET o == fetch.outcomes
      n == fetch.attempts
  IN
  /\ n <= MaxRetries
  /\ fetch.st = "run" => n < MaxRetries
  /\ fetch.st = "ok" => /\ n >= 1
                        /\ o[n] = "ok"
                        /\ \A i \in 1..(n - 1) : o[i] \in FetchFailures
  /\ (fetch.st = "err" /\ fetch.cause # "badreq")
       => /\ n = MaxRetries
          /\ \A i \in 1..MaxRetries : o[i] \in FetchFailures
          /\ fetch.cause = o[MaxRetries]
  /\ ((\A i \in 1..MaxRetries : o[i] \in FetchFailures) /\ n = MaxRetries)
       => fetch.st = "err"

\* C18: whatever the attempts meet, FetchURL makes at most 3 attempts, returns
\* the body at the first attempt that succeeds, returns an error with the cause
\* of the last attempt after 3 failed ones, and always returns.
C18_FetchTerminates == []FetchInv /\ <>(fetch.st # "run")

\* C18 witness: three failed attempts of the three kinds, and the error of the
\* last one returned.
C18_Witness ==
  /\ fetch.st = "err"
  /\ fetch.attempts = 3
  /\ SubSeq(fetch.outcomes, 1, 3) = <<"transport", "status", "read">>
  /\ fetch.cause = "read"

SuccessRate(c, s) == stats[c].sourceStats[s].successRate

\* C19: the step in which a source's Crawl returns sets the source's success
\* rate (in thousandths): a failure of the first cycle gives 0, a success of the
\* first cycle 1, a success after a rate of 1 gives 1, a failure after a rate
\* of 1 gives 0.9.
C19_SuccessRateValues ==
  [][\A c \in cfg.crawlers : \A s \in cfg.sources :
       (src[c][s].st = "crawl" /\ src'[c][s].st # "crawl")
         => LET failed == s \in hist'[c].failedSrc
                old == SuccessRate(c, s)
                new == stats'[c].sourceStats[s].successRate
            IN
            /\ (cycles[c] = 1 /\ failed) => new = 0
            /\ (cycles[c] = 1 /\ ~failed) => new = RateScale
            /\ (old = RateScale /\ ~failed) => new = RateScale
            /\ (old = RateScale /\ failed) => new = 900]_vars

\* C19 witness: the source succeeded in the first cycle and failed in the
\* second one: its rate is 0.9.
C19_Witness ==
  /\ cycles["A"] = 2
  /\ hist["A"].failedSrc = {"s1"}
  /\ SuccessRate("A", "s1") = 900

\* The corpus of a listing: its title, its product name when it has one that
\* differs from the title, and its category when it has one, case-folded.
Corpus(p) ==
  ToLower(p.title
          \o (IF p.product # <<>> /\ p.product # p.title THEN <<" ">> \o p.product ELSE <<>>)
          \o (IF p.category # <<>> THEN <<" ">> \o p.category ELSE <<>>))

\* The normalized keyword of a subscription: trimmed and case-folded.
Normalized(k) == ToLower(TrimSpace(k))

\* C20: the alerts FindMatchingAlerts has returned for a listing are exactly the
\* active subscriptions whose normalized keyword is in the listing's corpus; an
\* inactive subscription is never among them.
C20_MatchesAreActiveSubstrings ==
  \A c \in cfg.crawlers : \A wk \in WorkersOf(c) :
    (wk.st \in {"send", "done"} /\ wk.ret # "match")
      => /\ SeqToSet(wk.alerts) =
              {a \in AlertIds : Alerts[a].isActive
                                  /\ Contains(Corpus(wk.p), Normalized(Alerts[a].keyword))}
         /\ \A a \in SeqToSet(wk.alerts) : Alerts[a].isActive

\* C20 witness: the keyword "Mon" matched a listing titled "Moni", and the
\* inactive subscription "tv", whose keyword is in the category "TV", did not.
C20_Witness ==
  \E wk \in WorkersOf("A") :
    /\ wk.st = "send"
    /\ wk.p.title = <<"M", "o", "n", "i">>
    /\ wk.p.category = <<"T", "V">>
    /\ Alerts["a1"].keyword = <<"M", "o", "n">>
    /\ wk.alerts = <<"a1", "a2", "a3">>

\* The channels of the subscriptions that match a listing.
MatchChannels(p) == {Alerts[a].channelID : a \in SeqToSet(FindMatching(p))}

\* Nothing went wrong in the cycle that has returned: no cancellation, no failed
\* store call in the drain, no failed search of the alerts, no failed delivery
\* call and no refused record write.
CleanCycle(c) ==
  /\ Returned(c)
  /\ ~cancelled[c]
  /\ ~hist[c].storeFault
  /\ \A wk \in WorkersOf(c) : wk.failed = {} /\ wk.ret # "match" /\ wk.mark # "err"

\* C21: in a cycle in which nothing went wrong, every url a source returned
\* has one listing row; every new one had one dispatch goroutine, which made
\* one delivery call to each channel of the matching subscriptions and none to
\* another channel; a new listing has one NotifiedRecord when a subscription
\* matches it and none when none does.
C21_EndToEnd ==
  \A c \in cfg.crawlers :
    CleanCycle(c)
      => /\ \A u \in hist[c].returned : CountProducts(u) = 1
         /\ \A u \in hist[c].returned \ hist[c].preStore :
              \E w \in 1..Len(workers[c]) :
                LET wk == workers[c][w]
                    M == MatchChannels(wk.p)
                IN
                /\ wk.p.url = u
                /\ \A w2 \in 1..Len(workers[c]) : workers[c][w2].p.url = u => w2 = w
                /\ \A ch \in Channels : wk.calls[ch] = (IF ch \in M THEN 1 ELSE 0)
                /\ wk.sent = M
                /\ Cardinality({r \in notified : r.url = u}) = (IF M = {} THEN 0 ELSE 1)

\* C21 witness: the sources returned u1 ("Mon", matched) and u2 ("Tv", not
\* matched); both are stored, u1 was delivered once to ch1 and once to ch2 and
\* has the only NotifiedRecord.
C21_Witness ==
  /\ CleanCycle("A")
  /\ cycles["A"] = 1
  /\ hist["A"].failedSrc = {}
  /\ StoredUrls = {"u1", "u2"}
  /\ NotifiedUrls = {"u1"}
  /\ \E wk \in WorkersOf("A") :
       wk.p.url = "u1" /\ wk.sent = {"ch1", "ch2"} /\ TotalCalls(wk) = 2
  /\ \E wk \in WorkersOf("A") : wk.p.url = "u2" /\ wk.st = "done" /\ TotalCalls(wk) = 0

\* The listings of the cycle that had at least one successful delivery.
DeliveredListings(c) == {w \in 1..Len(workers[c]) : workers[c][w].sent # {}}

\* C25: when a cycle that was not cancelled has returned, the new count is the
\* number of listings the cycle inserted and the notified count is the number
\* of its listings with at least one successful delivery.
C25_CountsAreExact ==
  \A c \in cfg.crawlers :
    (Returned(c) /\ result[c] # "cancelled" /\ ~cancelled[c])
      => /\ stats[c].newProducts = Len(newProducts[c])
         /\ stats[c].notifiedProducts = Cardinality(DeliveredListings(c))

\* The steps of one listing in one cycle, read from two successive states: its
\* goroutine is started, a delivery call is made for it, its NotifiedRecord is
\* written.
WorkerStarted(c, w) == w = Len(workers[c]) + 1 /\ Len(workers'[c]) = w

CallMade(c, w) ==
  /\ w \in 1..Len(workers[c])
  /\ w \in 1..Len(workers'[c])
  /\ TotalCalls(workers'[c][w]) > TotalCalls(workers[c][w])

\* C26: a goroutine is started only for a listing whose existence check and
\* insert are done (it is in newProducts and stored) and has made no call
\* yet; a delivery call is made only by a goroutine that has the result of the
\* match and goes to a channel of a matching alert; a NotifiedRecord is written
\* only for a listing whose goroutine has a successful delivery.
C26_CausalOrder ==
  [][ /\ \A c \in cfg.crawlers : \A w \in 1..(Len(workers[c]) + 1) :
           /\ WorkerStarted(c, w)
                => /\ workers'[c][w].p.url \in NewUrls(c) \cap StoredUrls
                   /\ workers'[c][w].st \in {"match", "skipped"}
                   /\ TotalCalls(workers'[c][w]) = 0
           /\ CallMade(c, w)
                => /\ workers[c][w].st = "send"
                   /\ workers[c][w].alerts = FindMatching(workers[c][w].p)
                   /\ \A ch \in Channels :
                        workers'[c][w].calls[ch] > workers[c][w].calls[ch]
                          => ch \in MatchChannels(workers[c][w].p)
      /\ \A r \in notified' \ notified :
           \E c \in cfg.crawlers : \E wk \in WorkersOf(c) :
             /\ wk.p.url = r.url
             /\ wk.st = "send"
             /\ wk.sent # {}
             /\ r.url \in sendLog.ok
    ]_vars

\* C26 witness: the goroutine of u1 has called ch1 and ch2 once each after the
\* match, ch1 took the message, and its NotifiedRecord is written.
C26_Witness ==
  \E wk \in WorkersOf("A") :
    /\ wk.p.url = "u1"
    /\ wk.st = "done"
    /\ wk.alerts = FindMatching(wk.p)
    /\ wk.calls["ch1"] = 1 /\ wk.calls["ch2"] = 1
    /\ "ch1" \in wk.sent
    /\ wk.mark = "ok"
    /\ "u1" \in hist["A"].written \cap NotifiedUrls \cap StoredUrls

\* NotifyNewProducts is called in the step that takes Run from the drain to the
\* dispatch.
NotifyCalled(c) == pc[c] # "notify" /\ pc'[c] = "notify"

\* The sources are done and the queue is closed and drained.
CrawlOver(c) ==
  /\ \A s \in cfg.sources : src[c][s].st = "done"
  /\ closed[c]
  /\ queue[c] = <<>>
  /\ cur[c] = NoListing

\* C27: NotifyNewProducts is called only from the drain of a cycle whose
\* sources are all done and whose queue is closed and drained; the drain is
\* entered only by the start of a new cycle, so a cycle calls it at most once;
\* while the dispatch runs and whenever the cycle has a dispatch goroutine no
\* source is running and no listing is in the queue.
C27_NotifyOnceAfterDrain ==
  /\ [](\A c \in cfg.crawlers :
          (pc[c] = "notify" \/ workers[c] # <<>>) => CrawlOver(c))
  /\ [][\A c \in cfg.crawlers :
          /\ NotifyCalled(c) => pc[c] = "crawl" /\ CrawlOver(c) /\ workers[c] = <<>>
          /\ (pc[c] # "crawl" /\ pc'[c] = "crawl") => cycles'[c] = cycles[c] + 1
       ]_vars

\* C27 witness: two sources returned listings, both are done, the queue is
\* closed and empty, and the dispatch of the two new listings has made a call.
C27_Witness ==
  /\ pc["A"] = "notify"
  /\ hist["A"].failedSrc = {}
  /\ Cardinality(cfg.sources) = 2
  /\ Len(newProducts["A"]) = 2
  /\ hist["A"].calls > 0
  /\ CrawlOver("A")

\* C28: when a cycle that is not cancelled hands its batch to the dispatcher
\* or returns, the batch holds the urls that are stored now and were not
\* stored when the cycle started, and each of them once.
C28_BatchIsTheInserted ==
  \A c \in cfg.crawlers :
    (Drained(c) /\ ~cancelled[c])
      => /\ NewUrls(c) = StoredUrls \ hist[c].preStore
         /\ Len(newProducts[c]) = Cardinality(NewUrls(c))
         /\ \A u \in NewUrls(c) : CountProducts(u) = 1

\* C28 witness: in a first cycle on an empty store both sources returned u1,
\* one of them u2 as well, and the batch holds u1 and u2 once each.
C28_Witness ==
  /\ pc["A"] = "notify"
  /\ ~cancelled["A"]
  /\ cycles["A"] = 1
  /\ hist["A"].preStore = {}
  /\ hist["A"].failedSrc = {}
  /\ Cardinality(cfg.sources) = 2
  /\ hist["A"].returned = {"u1", "u2"}
  /\ NewUrls("A") = {"u1", "u2"}
  /\ Len(newProducts["A"]) = 2

\* C30: the step in which a source's Crawl returns with outcome o (0 for a
\* failure, 1 for a success) sets the source's rate to o in the first cycle and
\* to 0.9 * the rate before + 0.1 * o in a later cycle, and the rate is within
\* [0, 1] (rates in thousandths).
C30_RateIsMovingAverage ==
  [][\A c \in cfg.crawlers : \A s \in cfg.sources :
       (src[c][s].st = "crawl" /\ src'[c][s].st # "crawl")
         => LET o == IF s \in hist'[c].failedSrc THEN 0 ELSE RateScale
                old == SuccessRate(c, s)
                new == stats'[c].sourceStats[s].successRate
            IN
            /\ cycles[c] = 1 => new = o
            /\ cycles[c] > 1 => 10 * new = 9 * old + o
            /\ new \in 0..RateScale]_vars

\* The successful deliveries of a url to a channel, over the goroutines of
\* every crawler process.
DeliveriesOf(u, ch) ==
  {cw \in Crawlers \X (1..Cardinality(Urls)) :
     /\ cw[1] \in cfg.crawlers
     /\ cw[2] <= Len(workers[cw[1]])
     /\ workers[cw[1]][cw[2]].p.url = u
     /\ ch \in workers[cw[1]][cw[2]].sent}

\* C22: with the unique index on the url, a url has at most one listing row and
\* is in the batch of at most one crawler process; a process that is not
\* cancelled and has drained its queue has every url it saw stored, and each
\* of them that was not stored before is in the batch of exactly one process;
\* a rejected insert is no error of the cycle; a url has at most one
\* successful delivery to a channel over both processes.
C22_OneWinner ==
  /\ \A u \in Urls :
       /\ CountProducts(u) <= 1
       /\ Cardinality({c \in cfg.crawlers : u \in NewUrls(c)}) <= 1
       /\ \A ch \in Channels : Cardinality(DeliveriesOf(u, ch)) <= 1
  /\ \A c \in cfg.crawlers :
       /\ (Drained(c) /\ ~cancelled[c])
            => /\ hist[c].returned \subseteq StoredUrls
               /\ \A u \in hist[c].returned \ hist[c].preStore :
                    Cardinality({d \in cfg.crawlers : u \in NewUrls(d)}) = 1
       /\ (Returned(c) /\ ~cancelled[c] /\ hist[c].failedSrc = {}
             /\ notificationErrors[c] = <<>>)
            => result[c] = "nil"

\* C22 witness: neither process found u3 or u2 stored when it started; B's
\* insert of u3 was rejected, B went on and inserted u2; A has u3 in its batch
\* and delivered it; both cycles returned without an error.
C22_Witness ==
  /\ hist["A"].preStore = {} /\ hist["B"].preStore = {}
  /\ ~cancelled["A"] /\ ~cancelled["B"]
  /\ Returned("A") /\ Returned("B")
  /\ result["A"] = "nil" /\ result["B"] = "nil"
  /\ hist["B"].storeFault
  /\ NewUrls("A") = {"u3"}
  /\ NewUrls("B") = {"u2"}
  /\ Cardinality(DeliveriesOf("u3", "ch2")) = 1

\* A source goroutine is at its send to the queue; a step of that goroutine; the
\* step in which it gives up and returns.
AtQueue(c, s) ==
  \/ src[c][s].st = "push"
  \/ src[c][s].st = "send" /\ src[c][s].pending # <<>>

ProducerStep(c, s) ==
  \/ SourcePush(c, s)
  \/ SourcePushCancelled(c, s)
  \/ SimplePush(c, s)
  \/ SimpleUnlock(c, s)

ProducerStops(c, s) ==
  ProducerStep(c, s) /\ src'[c][s].st = "done" /\ queue'[c] = queue[c]

\* C29: the queue holds at most QueueCap listings; a source goroutine whose send
\* finds the queue full has no step while the cycle is not cancelled, and when
\* the cycle is cancelled its step is to stop: it returns without a send.
C29_FullQueueBlocksUntilCancel ==
  \A c \in cfg.crawlers :
    /\ Len(queue[c]) <= QueueCap
    /\ \A s \in cfg.sources :
         (AtQueue(c, s) /\ Len(queue[c]) = QueueCap)
           => IF cancelled[c]
              THEN ENABLED ProducerStops(c, s)
              ELSE ~ENABLED ProducerStep(c, s)

\* C23: no user has two active subscriptions whose keywords are equal after
\* trimming and case-folding.
C23_NoDuplicateSubscription ==
  \A r1, r2 \in keywordAlerts :
    (/\ r1.userID = r2.userID
     /\ r1.isActive /\ r2.isActive
     /\ Normalized(r1.keyword) = Normalized(r2.keyword))
      => r1 = r2

\* C24: the per-source statistics read through the value GetStats returned stay
\* what they were at the return (and what the caller made of them), whatever
\* the cycles do afterwards, and a change the caller makes to the value leaves
\* the crawler's statistics as they are.
C24_SnapshotIsDetached ==
  /\ [](snap.taken => SnapshotSourceStats = snap.seen)
  /\ [][(snap.taken /\ snap'.writes # snap.writes) => stats' = stats]_vars

\* C31: a goroutine whose FindMatchingAlerts returned without an error has
\* every matching subscription, in cursor order, whichever metadata updates
\* and whether or not the update of the listing's keywords went through.
C31_SideEffectsDoNotAbort ==
  \A c \in cfg.crawlers : \A wk \in WorkersOf(c) :
    (wk.st \in {"send", "done"} /\ wk.ret # "match")
      => wk.alerts = FindMatching(wk.p)

\* C31 witness: the metadata update of a1, the first match, failed, the one of
\* a3 went through, the listing's keywords were not written, and the goroutine
\* has a1, a2 and a3.
C31_Witness ==
  /\ alertMeta["a1"] = 0
  /\ alertMeta["a3"] = 1
  /\ \E r \in products : r.url = "u1" /\ r.keywords = <<>>
  /\ \E wk \in WorkersOf("A") :
       wk.p.url = "u1" /\ wk.st = "send" /\ wk.alerts = <<"a1", "a2", "a3">>

\* The mention of a subscriber: the display name when one is recorded, else
\* the raw id.
MentionOf(u) ==
  IF EmbedUsername[u] # "" THEN <<"@", EmbedUsername[u]>> ELSE <<"<@", u>>

\* C32: the mentions of a rendered notification are the mentions of the
\* distinct subscribers of its alerts, each once and nothing else.
C32_EachSubscriberOnce ==
  embed.st = "done"
    => LET subscribers == {embed.alerts[i].userID : i \in 1..Len(embed.alerts)} IN
       /\ {embed.usernames[i] : i \in 1..Len(embed.usernames)}
            = {MentionOf(u) : u \in subscribers}
       /\ Len(embed.usernames) = Cardinality(subscribers)

\* C33: no two tasks are inside an update of the per-source health map at the
\* same time, and no read of the map happens while an update is in progress.
C33_UpdatesAreExclusive ==
  healthAccess.on
    => /\ Cardinality(healthAccess.writers) <= 1
       /\ healthAccess.reader = "read" => healthAccess.during = {}

\* The fields of a stored listing that no update names.
ListingFields(r) == [id |-> r.id, url |-> r.url, title |-> r.title, source |-> r.source]

\* C34: no step of the pipeline removes a stored listing's URL or a
\* NotifiedRecord, and every stored listing keeps its id, URL, title and source;
\* only its matched keywords and its notified flag change.
C34_NeverDeletes ==
  [][/\ StoredUrls \subseteq StoredUrls'
     /\ NotifiedUrls \subseteq NotifiedUrls'
     /\ notified \subseteq notified'
     /\ Cardinality(products') >= Cardinality(products)
     /\ \A r \in products : \E r2 \in products' : ListingFields(r2) = ListingFields(r)]_vars

\* A listing stored in the first cycle, with its keywords and its notified flag
\* set and its NotifiedRecord written, is still there when the second cycle is
\* over.
C34_Witness ==
  \E c \in cfg.crawlers :
    /\ cycles[c] = 2
    /\ Returned(c)
    /\ \E r \in products :
         /\ r.url \in hist[c].preStore
         /\ r.keywords # <<>>
         /\ r.notified
         /\ r.url \in NotifiedUrls

\* C35: a cycle is in flight only while the scheduler is inside its call of
\* Run, and a cycle starts only when none is in flight: the first one, or one
\* after the previous Run has returned.
C35_OneCycleInFlight ==
  /\ [](\A c \in cfg.crawlers : pc[c] # "idle" => sched[c] = "run")
  /\ [][\A c \in cfg.crawlers :
          cycles'[c] # cycles[c]
            => /\ pc[c] = "idle"
               /\ sched[c] # "run"
               /\ cycles[c] > 0 => result[c] # "none"]_vars

\* The second cycle is in flight, started after the first returned, and the
\* ticker has fired again before it is over.
C35_Witness ==
  \E c \in cfg.crawlers :
    /\ cycles[c] = 2
    /\ pc[c] = "notify"
    /\ sched[c] = "run"
    /\ schedTick[c]

\* C36: a sendProductNotifications call that went through its loop returns
\* "all notifications failed" only when no channel delivery succeeded, and the
\* partial-failure error exactly when a delivery succeeded and a delivery failed.
C36_ResultTellsDeliveries ==
  \A c \in cfg.crawlers : \A w \in 1..Len(workers[c]) :
    LET wk == workers[c][w] IN
    wk.st = "done" /\ wk.ret \in {"nil", "partial", "allfailed"} /\ Len(wk.alerts) > 0
      => /\ wk.ret = "allfailed" => wk.sent = {}
         /\ wk.ret = "partial" <=> (wk.sent # {} /\ wk.failed # {})

\* The drain loop takes a listing without a stored row and leaves it without a
\* stored row and without an insert to come: its count or its insert failed.
StoreFailedStep(c) ==
  /\ products' = products
  /\ cur'[c] = NoListing
  /\ \/ cur[c] # NoListing
     \/ /\ pc[c] = "crawl"
        /\ ~cancelled[c]
        /\ Len(queue'[c]) < Len(queue[c])
        /\ Head(queue[c]).url \notin StoredUrls

\* C37: a step of the drain loop whose existence check or insert failed leaves
\* the new listings as they were and the loop running; only listings of the new
\* listings are dispatched; and a cycle with such a failure and no other still
\* returns without an error.
C37_StoreFailureSkipsListing ==
  /\ [][\A c \in cfg.crawlers :
          StoreFailedStep(c)
            => /\ newProducts'[c] = newProducts[c]
               /\ pc'[c] = "crawl"
               /\ result'[c] = result[c]]_vars
  /\ [](\A c \in cfg.crawlers :
          /\ \A w \in 1..Len(workers[c]) :
               \E i \in 1..Len(newProducts[c]) : newProducts[c][i] = workers[c][w].p
          /\ \A i \in 1..Len(newProducts[c]) : newProducts[c][i].url \in StoredUrls
          /\ (/\ Returned(c)
              /\ hist[c].storeFault
              /\ hist[c].failedSrc = {}
              /\ ~cancelled[c]
              /\ notificationErrors[c] = <<>>)
               => result[c] = "nil")

\* A first cycle has returned without an error: the store failed for one
\* listing, which has no row and was not dispatched, and the drain went on to
\* another listing, which was stored and delivered.
C37_Witness ==
  \E c \in cfg.crawlers :
    /\ cycles[c] = 1
    /\ Returned(c)
    /\ result[c] = "nil"
    /\ hist[c].storeFault
    /\ ~cancelled[c]
    /\ \E u \in hist[c].returned : u \notin StoredUrls
    /\ \E w \in 1..Len(workers[c]) : workers[c][w].sent # {}

Busy(c) ==
  \/ pc[c] # "idle"
  \/ ~AllSourcesDone(c)
  \/ ~closed[c]
  \/ Running(c) # {}

\* A task of crawler c's cycle that is not done can take a step, once the
\* limiter has ticked if it waits for the limiter.
CanStep(c) == ENABLED PipelineStep(c)

\* C39: while a task of a cycle is unfinished some task of the cycle can take a
\* step, and every cycle that starts leads to a state where its source
\* goroutines, its closer and its dispatch goroutines are done and Run has
\* returned, whenever ctx is cancelled or never.
C39_CycleTerminates ==
  /\ [](\A c \in Crawlers : Busy(c) => CanStep(c))
  /\ \A c \in Crawlers : (pc[c] # "idle") ~> ~Busy(c)

\* A cycle is over with nothing left running: its six listings, more than the
\* queue and more than the semaphore hold, all went through the queue and each
\* had its dispatch goroutine.
C39_Witness ==
  \E c \in cfg.crawlers :
    /\ Returned(c)
    /\ ~Busy(c)
    /\ Len(workers[c]) > SemCap
    /\ Len(workers[c]) > QueueCap
    /\ \A w \in 1..Len(workers[c]) : workers[c][w].st = "done"

====
